---------------------------- MODULE Spec2Model ----------------------------
(***************************************************************************)
(* Model of the music recommender: the feedback write path                 *)
(* (FeedbackService over a PostgreSQL session), the offline statistics     *)
(* service, the composite ranking stage and the MMR diversifier.           *)
(*                                                                         *)
(* Real numbers (scores, CTRs, propensities) are exact rationals <<n, d>>  *)
(* in lowest terms with d > 0.                                             *)
(***************************************************************************)
EXTENDS Integers, Sequences, FiniteSets, TLC

VARIABLES
    stats,      \* committed item_statistics table: output_id -> row or NoRow
    log,        \* committed interactions table: set of Interaction rows
    clock,      \* current day (datetime.now / NOW() at day granularity)
    pc,         \* feedback request w: position in record_feedback / get_db
    req,        \* feedback request w: [output_id, action, position_shown]
    pending,    \* feedback request w: uncommitted row version written by its UPSERT
    resp,       \* feedback request w: counters read back by get_output_stats
    rpc,        \* update_ctr_estimates: position in the statement / commit
    rtargets,   \* update_ctr_estimates: rows its snapshot selected
    rpending,   \* update_ctr_estimates: uncommitted row versions, per output
    rcount,     \* update_ctr_estimates: returned rowcount
    dpool,      \* diversity call: the reranked candidate pool passed in
    dk,         \* diversity call: k
    dout,       \* diversity call: the returned list
    dpc,        \* diversity call: "called" before, "returned" after
    dlambda,    \* MMR call: lambda_relevance of the diversifier
    dslots,     \* MMR call: the genre_slots passed in (<<>>: None)
    catalog,    \* search scenario: songs / audio outputs of the catalog
    phase,      \* search scenario: position of the client
    baseline,   \* search scenario: response of the first search
    last,       \* search scenario: response of the second search
    calibrated, \* last table returned by calibrate_position_propensities
    args,       \* function call: the arguments (and the condition they meet)
    ret,        \* function call: what the call returned
    cpc,        \* function call: "called" before, "returned" after
    redis       \* embedding cache: Redis key -> entry (<<>>: no cache in the scenario)

feedbackVars == <<pc, req, pending, resp>>
refreshVars == <<rpc, rtargets, rpending, rcount>>
diversityVars == <<dpool, dk, dout, dpc, dlambda, dslots>>
searchVars == <<catalog, phase, baseline, last, calibrated>>
callVars == <<args, ret, cpc, redis>>

vars == <<stats, log, clock, feedbackVars, refreshVars, diversityVars, searchVars, callVars>>

-----------------------------------------------------------------------------
(* Bounds *)

NumWriters == 2    \* concurrent feedback requests

MaxCands == 4     \* longest candidate pool handed to the diversity stage
MaxEvents == 3    \* feedback events between the two searches of the scenario
Today == 15       \* day of the month on which the search scenario runs

Writers == 1..NumWriters

\* request.position_shown or 0: no position given, or the top position
Positions == {0, 1}

\* audio_outputs rows of the catalog the feedback requests address.
Outputs == {"A"}

-----------------------------------------------------------------------------
(* Exact rationals *)

RECURSIVE GCD(_, _)
GCD(a, b) == IF b = 0 THEN a ELSE GCD(b, a % b)

Abs(x) == IF x < 0 THEN -x ELSE x

Frac(n, d) ==
    LET g == GCD(Abs(n), Abs(d))
        s == IF d < 0 THEN -1 ELSE 1
    IN  <<(s * n) \div g, (s * d) \div g>>

RLess(x, y) == x[1] * y[2] < y[1] * x[2]
RLeq(x, y) == x[1] * y[2] <= y[1] * x[2]
RAdd(x, y) == Frac(x[1] * y[2] + y[1] * x[2], x[2] * y[2])
RSub(x, y) == Frac(x[1] * y[2] - y[1] * x[2], x[2] * y[2])
RMul(x, y) == Frac(x[1] * y[1], x[2] * y[2])
RDiv(x, y) == Frac(x[1] * y[2], x[2] * y[1])
RMin(x, y) == IF RLess(y, x) THEN y ELSE x
RMax(x, y) == IF RLess(x, y) THEN y ELSE x
RZero == <<0, 1>>
ROne == <<1, 1>>
RHalf == <<1, 2>>
RQuarter == <<1, 4>>

-----------------------------------------------------------------------------
(* item_statistics rows *)

NoRow == [exists |-> FALSE]

\* scripts/ingest.py: the row written with every ingested AudioOutput.
IngestedRow ==
    [exists |-> TRUE, impression_count |-> 0, click_count |-> 0, like_count |-> 0,
     position_sum |-> 0, ctr_estimate |-> RHalf, ctr_variance |-> RQuarter,
     last_interaction |-> 0, stats_updated_at |-> 0]

Actions == {"click", "like", "skip", "play_complete", "impression"}

click_increment(action) == IF action = "click" THEN 1 ELSE 0

like_increment_counts_play_complete(action) ==
    IF action \in {"like", "play_complete"} THEN 1 ELSE 0
like_increment(action) == IF action = "like" THEN 1 ELSE 0

impression_increment_no_click(action) ==
    IF action \in {"impression", "skip"} THEN 1 ELSE 0
impression_increment(action) ==
    IF action \in {"click", "impression", "skip"} THEN 1 ELSE 0

\* The row version INSERT ... ON CONFLICT (output_id) DO UPDATE writes, given
\* the latest committed version `row` of the conflicting key (NoRow: insert).
stats_upsert_resets_ctr(row, action, position_shown, now) ==
    [exists |-> TRUE,
     impression_count |->
        (IF row.exists THEN row.impression_count ELSE 0) + impression_increment(action),
     click_count |-> (IF row.exists THEN row.click_count ELSE 0) + click_increment(action),
     like_count |-> (IF row.exists THEN row.like_count ELSE 0) + like_increment(action),
     position_sum |-> (IF row.exists THEN row.position_sum ELSE 0) + position_shown,
     ctr_estimate |-> RHalf,
     ctr_variance |-> RQuarter,
     last_interaction |-> now,
     stats_updated_at |-> now]
stats_upsert(row, action, position_shown, now) ==
    IF row.exists
    THEN [row EXCEPT
            !.impression_count = @ + impression_increment(action),
            !.click_count = @ + click_increment(action),
            !.like_count = @ + like_increment(action),
            !.position_sum = @ + position_shown,
            !.last_interaction = now,
            !.stats_updated_at = now]
    ELSE [exists |-> TRUE,
          impression_count |-> impression_increment(action),
          click_count |-> click_increment(action),
          like_count |-> like_increment(action),
          position_sum |-> position_shown,
          ctr_estimate |-> RHalf,
          ctr_variance |-> RQuarter,
          last_interaction |-> now,
          stats_updated_at |-> now]

\* ItemStatistics.average_position
average_position(row) ==
    IF row.impression_count = 0 THEN RZero
    ELSE Frac(row.position_sum, row.impression_count)

\* FeedbackService.get_output_stats on the row version the session sees.
get_output_stats(row) ==
    IF ~row.exists THEN NoRow
    ELSE [exists |-> TRUE,
          click_count |-> row.click_count,
          impression_count |-> row.impression_count,
          like_count |-> row.like_count,
          ctr_estimate |-> row.ctr_estimate,
          average_position |-> average_position(row),
          last_interaction |-> row.last_interaction]

\* Interaction(...) as built by record_interaction; id is the uuid4 default.
Interaction(id, output_id, action, position_shown, now) ==
    [id |-> id, output_id |-> output_id, action_type |-> action,
     position_shown |-> position_shown, created_at |-> now]

-----------------------------------------------------------------------------
(* Row locks of the storage layer *)

NoReq == [output_id |-> "none", action |-> "none", position_shown |-> 0]

\* Feedback transaction w holds the row lock of its output from its UPSERT
\* until commit or rollback.
WriterHolds(w, o) == pending[w].exists /\ req[w].output_id = o

RowLockIgnored(o, w) == TRUE
RowLockAvailable(o, w) ==
    /\ \A v \in Writers \ {w} : ~WriterHolds(v, o)
    /\ ~rpending[o].exists

RowLockFreeForRefresh(o) == \A v \in Writers : ~WriterHolds(v, o)

-----------------------------------------------------------------------------
(* POST /feedback/{output_id}: record_feedback under get_db *)

\* The request arrives, get_db opens a session, record_interaction builds the
\* Interaction and adds it to the session (nothing is sent to the database).
Begin(w) ==
    /\ pc[w] = "idle"
    /\ \E o \in Outputs, a \in Actions, p \in Positions :
          req' = [req EXCEPT ![w] =
                    [output_id |-> o, action |-> a, position_shown |-> p]]
    /\ pc' = [pc EXCEPT ![w] = "started"]
    /\ UNCHANGED <<stats, log, clock, pending, resp, rpc, rtargets, rpending, rcount>>
    /\ UNCHANGED <<diversityVars, searchVars, callVars>>

\* await self.db.execute(stats_upsert): waits for the row lock, then writes a
\* new version computed from the latest committed one.
Upsert(w) ==
    /\ pc[w] = "started"
    /\ RowLockAvailable(req[w].output_id, w)
    /\ pending' = [pending EXCEPT ![w] =
          stats_upsert(stats[req[w].output_id], req[w].action,
                       req[w].position_shown, clock)]
    /\ pc' = [pc EXCEPT ![w] = "upserted"]
    /\ UNCHANGED <<stats, log, clock, req, resp, rpc, rtargets, rpending, rcount>>
    /\ UNCHANGED <<diversityVars, searchVars, callVars>>

\* await self.db.flush(): the INSERT of the Interaction row, uncommitted.
Flush(w) ==
    /\ pc[w] = "upserted"
    /\ pc' = [pc EXCEPT ![w] = "flushed"]
    /\ UNCHANGED <<stats, log, clock, req, pending, resp, rpc, rtargets, rpending, rcount>>
    /\ UNCHANGED <<diversityVars, searchVars, callVars>>

\* stats = await feedback_service.get_output_stats(output_id), inside the
\* same session: it reads the session's own row version.
GetStats(w) ==
    /\ pc[w] = "flushed"
    /\ resp' = [resp EXCEPT ![w] = get_output_stats(pending[w])]
    /\ pc' = [pc EXCEPT ![w] = "responded"]
    /\ UNCHANGED <<stats, log, clock, req, pending, rpc, rtargets, rpending, rcount>>
    /\ UNCHANGED <<diversityVars, searchVars, callVars>>

\* A StorageError (or a cancellation) at any suspension point of the request,
\* the commit included: the exception reaches get_db's except branch.
Fail(w) ==
    /\ pc[w] \in {"started", "upserted", "flushed", "responded"}
    /\ pc' = [pc EXCEPT ![w] = "failed"]
    /\ UNCHANGED <<stats, log, clock, req, pending, resp, rpc, rtargets, rpending, rcount>>
    /\ UNCHANGED <<diversityVars, searchVars, callVars>>

\* What session.commit() makes visible: the session's row version and its
\* Interaction row, in one transaction.
CommittedStats(w) == [stats EXCEPT ![req[w].output_id] = pending[w]]

CommittedLogWithoutInteraction(w) == log

CommittedLog(w) ==
    log \cup {Interaction(w, req[w].output_id, req[w].action,
                          req[w].position_shown, clock)}

\* What session.rollback() leaves in the database.
RolledBackStatsKeepsUpsert(w) ==
    IF pending[w].exists THEN [stats EXCEPT ![req[w].output_id] = pending[w]] ELSE stats
RolledBackStats(w) == stats

RolledBackLog(w) == log

\* get_db: await session.commit() after the route returned.
Commit(w) ==
    /\ pc[w] = "responded"
    /\ stats' = CommittedStats(w)
    /\ log' = CommittedLog(w)
    /\ pending' = [pending EXCEPT ![w] = NoRow]
    /\ req' = [req EXCEPT ![w] = NoReq]
    /\ resp' = [resp EXCEPT ![w] = NoRow]
    /\ pc' = [pc EXCEPT ![w] = "committed"]
    /\ UNCHANGED <<clock, rpc, rtargets, rpending, rcount>>
    /\ UNCHANGED <<diversityVars, searchVars, callVars>>

\* get_db: except Exception: await session.rollback(); raise.
Rollback(w) ==
    /\ pc[w] = "failed"
    /\ stats' = RolledBackStats(w)
    /\ log' = RolledBackLog(w)
    /\ pending' = [pending EXCEPT ![w] = NoRow]
    /\ req' = [req EXCEPT ![w] = NoReq]
    /\ resp' = [resp EXCEPT ![w] = NoRow]
    /\ pc' = [pc EXCEPT ![w] = "rolled_back"]
    /\ UNCHANGED <<clock, rpc, rtargets, rpending, rcount>>
    /\ UNCHANGED <<diversityVars, searchVars, callVars>>

-----------------------------------------------------------------------------
(* StatisticsService.update_ctr_estimates *)

thompson_prior_alpha == 1
thompson_prior_beta == 1

\* SET ctr_estimate = ..., ctr_variance = ..., stats_updated_at = NOW()
ctr_update_raw_ratio(row, now) ==
    [row EXCEPT
        !.ctr_estimate = Frac(row.click_count, row.impression_count),
        !.stats_updated_at = now]
ctr_update(row, now) ==
    LET a == thompson_prior_alpha
        b == thompson_prior_beta
        n == row.impression_count
        c == row.click_count
    IN  [row EXCEPT
            !.ctr_estimate = Frac(a + c, a + b + n),
            !.ctr_variance = Frac((a + c) * (b + n - c),
                                  (a + b + n) * (a + b + n) * (a + b + n + 1)),
            !.stats_updated_at = now]

\* The UPDATE starts: its snapshot selects the rows WHERE impression_count > 0.
RefreshBegin ==
    /\ rpc = "idle"
    /\ rtargets' = {o \in Outputs : stats[o].exists /\ stats[o].impression_count > 0}
    /\ rpc' = "updating"
    /\ UNCHANGED <<stats, log, clock, pc, req, pending, resp, rpending, rcount>>
    /\ UNCHANGED <<diversityVars, searchVars, callVars>>

\* The UPDATE reaches row o: it waits for the row lock and updates the latest
\* committed version.
RefreshRow(o) ==
    /\ rpc = "updating"
    /\ o \in rtargets
    /\ ~rpending[o].exists
    /\ RowLockFreeForRefresh(o)
    /\ rpending' = [rpending EXCEPT ![o] = ctr_update(stats[o], clock)]
    /\ UNCHANGED <<stats, log, clock, pc, req, pending, resp, rpc, rtargets, rcount>>
    /\ UNCHANGED <<diversityVars, searchVars, callVars>>

\* await self.db.commit(); return result.rowcount
RefreshCommit ==
    /\ rpc = "updating"
    /\ \A o \in rtargets : rpending[o].exists
    /\ stats' = [o \in Outputs |-> IF rpending[o].exists THEN rpending[o] ELSE stats[o]]
    /\ rpending' = [o \in Outputs |-> NoRow]
    /\ rcount' = Cardinality(rtargets)
    /\ rpc' = "done"
    /\ UNCHANGED <<log, clock, pc, req, pending, resp, rtargets>>
    /\ UNCHANGED <<diversityVars, searchVars, callVars>>

-----------------------------------------------------------------------------
(* Sequences *)

Take(seq, n) == SubSeq(seq, 1, IF n < Len(seq) THEN n ELSE Len(seq))

\* Sorting works on records with a field `key`, the value of the sort key.
\* Insert x behind every element whose key is not smaller: with the elements
\* inserted left to right this is list.sort(key=..., reverse=True), stable.
RECURSIVE InsertDesc(_, _)
InsertDesc(sorted, x) ==
    IF sorted = <<>> THEN <<x>>
    ELSE IF RLess(Head(sorted).key, x.key)
         THEN <<x>> \o sorted
         ELSE <<Head(sorted)>> \o InsertDesc(Tail(sorted), x)

RECURSIVE SortDescFrom(_, _, _)
SortDescFrom(seq, i, acc) ==
    IF i > Len(seq) THEN acc
    ELSE SortDescFrom(seq, i + 1, InsertDesc(acc, seq[i]))

SortDesc(seq) == SortDescFrom(seq, 1, <<>>)

\* 1-based index of the entry for output o, 0 when absent
RECURSIVE IndexOf(_, _, _)
IndexOf(seq, o, i) ==
    IF i > Len(seq) THEN 0
    ELSE IF seq[i].output_id = o THEN i
    ELSE IndexOf(seq, o, i + 1)

PositionOf(seq, o) == IndexOf(seq, o, 1)

-----------------------------------------------------------------------------
(* Settings (app/config.py) *)

weight_semantic == Frac(50, 100)
weight_popularity == Frac(25, 100)
weight_exploration == Frac(15, 100)
weight_freshness == Frac(10, 100)
freshness_decay_rate == Frac(1, 100)
default_propensity == Frac(5, 100)
candidate_pool_size == 500
composite_pool_size == 50
rerank_pool_size == 30
final_result_size == 20

position_propensities ==
    [pos \in 1..10 |->
        Frac(<<100, 70, 50, 35, 25, 18, 13, 10, 8, 6>>[pos], 100)]

-----------------------------------------------------------------------------
(* PositionBiasCorrector *)

get_propensity(propensities, position) ==
    IF position \in DOMAIN propensities THEN propensities[position]
    ELSE default_propensity

\* Python round() of the float n / d: to nearest, ties to even.
RoundDown(n, d) == n \div d
Round(n, d) ==
    LET q == n \div d
        r == n % d
    IN  IF 2 * r < d THEN q
        ELSE IF 2 * r > d THEN q + 1
        ELSE IF q % 2 = 0 THEN q ELSE q + 1

compute_simplified_debiased_ctr(propensities, clicks, impressions, position_sum) ==
    IF impressions = 0 THEN RHalf
    ELSE LET avg_propensity == get_propensity(propensities, Round(position_sum, impressions))
             raw_ctr == Frac(clicks, impressions)
             debiased_ctr == RDiv(raw_ctr, RMax(avg_propensity, Frac(1, 100)))
         IN  RMin(ROne, debiased_ctr)

-----------------------------------------------------------------------------
(* ThompsonSampler *)

\* floor(1000 * sqrt(x)) / 1000 for a rational 0 <= x <= 1
Sqrt(x) ==
    LET v == (x[1] * 1000000) \div x[2]
    IN  Frac(CHOOSE k \in 0..1000 : k * k <= v /\ v < (k + 1) * (k + 1), 1000)

\* draw stands for the value np.random.beta returns
compute_exploration_score(clicks, impressions, use_ucb, draw) ==
    LET alpha == thompson_prior_alpha + clicks
        d == impressions - clicks
        beta == thompson_prior_beta + (IF d > 0 THEN d ELSE 0)
    IN  IF use_ucb
        THEN LET mean == Frac(alpha, alpha + beta)
                 variance == Frac(alpha * beta,
                                  (alpha + beta) * (alpha + beta) * (alpha + beta + 1))
             IN  RMin(ROne, RAdd(mean, RMul(<<2, 1>>, Sqrt(variance))))
        ELSE draw

-----------------------------------------------------------------------------
(* RankingService *)

\* math.exp(-x) for 0 <= x < 1, by its series up to x^3 (error below x^4/24)
ExpNeg(x) ==
    LET x2 == RMul(x, x)
        x3 == RMul(x2, x)
    IN  RAdd(RSub(RAdd(RSub(ROne, x), RMul(RHalf, x2)), RMul(Frac(1, 6), x3)), RZero)

popularity_ignores_statistics(propensities, click_count, impression_count, position_sum) ==
    RHalf
popularity_score(propensities, click_count, impression_count, position_sum) ==
    IF impression_count > 0
    THEN RMin(compute_simplified_debiased_ctr(propensities, click_count,
                                              impression_count, position_sum), ROne)
    ELSE RHalf

\* compute_composite_score; use_thompson defaults to True and rank_candidates
\* does not pass it, so the exploration term is the Beta draw.
compute_composite_score(propensities, c, now, use_thompson, draw) ==
    LET semantic == c.semantic_score
        popularity == popularity_score(propensities, c.click_count,
                                       c.impression_count, c.position_sum)
        exploration == compute_exploration_score(c.click_count, c.impression_count,
                                                 ~use_thompson, draw)
        freshness == ExpNeg(RMul(freshness_decay_rate, <<now - c.created_at, 1>>))
    IN  [semantic_score |-> semantic,
         popularity_score |-> popularity,
         exploration_score |-> exploration,
         freshness_score |-> freshness,
         composite_score |->
            RAdd(RAdd(RMul(weight_semantic, semantic), RMul(weight_popularity, popularity)),
                 RAdd(RMul(weight_exploration, exploration),
                      RMul(weight_freshness, freshness)))]

\* rank_candidates: score every candidate ({**candidate, **scores}), sort by
\* composite_score descending, keep the first `limit`.
\* limit = 0 stands for the default None (limit or composite_pool_size).
rank_candidates_unsorted(propensities, candidates, limit, now, draws) ==
    LET scored == [i \in 1..Len(candidates) |->
                      LET scores == compute_composite_score(propensities, candidates[i],
                                        now, TRUE, draws[candidates[i].output_id])
                      IN  [candidate |-> candidates[i],
                           output_id |-> candidates[i].output_id,
                           scores |-> scores,
                           key |-> scores.composite_score]]
    IN  IF candidates = <<>> THEN <<>>
        ELSE Take(scored, IF limit = 0 THEN composite_pool_size ELSE limit)
rank_candidates(propensities, candidates, limit, now, draws) ==
    LET scored == [i \in 1..Len(candidates) |->
                      LET scores == compute_composite_score(propensities, candidates[i],
                                        now, TRUE, draws[candidates[i].output_id])
                      IN  [candidate |-> candidates[i],
                           output_id |-> candidates[i].output_id,
                           scores |-> scores,
                           key |-> scores.composite_score]]
    IN  IF candidates = <<>> THEN <<>>
        ELSE Take(SortDesc(scored), IF limit = 0 THEN composite_pool_size ELSE limit)

-----------------------------------------------------------------------------
(* MMRDiversifier (app/core/mmr.py) *)

\* Embeddings are integer vectors <<x, y>> whose norm is an integer, so that
\* the cosine is an exact rational; NoEmbedding is a missing (None) embedding.
NoEmbedding == <<>>

\* a key the dict does not have, or whose value is None
None == <<>>

Dot(a, b) == a[1] * b[1] + a[2] * b[2]
Norm(a) == CHOOSE n \in 0..(Abs(a[1]) + Abs(a[2])) : n * n = Dot(a, a)

_cosine_similarity(a, b) ==
    IF Norm(a) = 0 \/ Norm(b) = 0 THEN RZero
    ELSE Frac(Dot(a, b), Norm(a) * Norm(b))

\* max similarity to the already selected items, 0.0 when none is selected
RECURSIVE MaxSimilarity(_, _, _)
MaxSimilarity(candidate, selected, i) ==
    IF i > Len(selected) THEN <<-2, 1>>
    ELSE RMax(_cosine_similarity(candidate.embedding, selected[i].embedding),
              MaxSimilarity(candidate, selected, i + 1))

compute_redundancy_first_selected(candidate, selected) ==
    IF selected = <<>> THEN RZero
    ELSE _cosine_similarity(candidate.embedding, selected[1].embedding)
compute_redundancy(candidate, selected) ==
    IF selected = <<>> THEN RZero ELSE MaxSimilarity(candidate, selected, 1)

compute_mmr_score_unweighted(lambda_relevance, relevance, redundancy) ==
    RSub(relevance, redundancy)
compute_mmr_score(lambda_relevance, relevance, redundancy) ==
    RSub(RMul(lambda_relevance, relevance),
         RMul(RSub(ROne, lambda_relevance), redundancy))

\* the `continue` of the selection loop: the candidate's genre has a quota
\* and the quota is used up
QuotaNeverFull(genre_slots, genre_counts, candidate) == FALSE
QuotaFull(genre_slots, genre_counts, candidate) ==
    /\ DOMAIN genre_slots # {}
    /\ candidate.primary_genre \in DOMAIN genre_counts
    /\ genre_counts[candidate.primary_genre] >= genre_slots[candidate.primary_genre]

NoBest == [found |-> FALSE, idx |-> 0, score |-> RZero, redundancy |-> RZero]

\* the for loop over `remaining`: the first candidate of the highest MMR
\* score among those whose quota is not full (found = FALSE: best_score
\* stayed -inf)
RECURSIVE ScanBest(_, _, _, _, _, _, _)
ScanBest(remaining, selected, genre_slots, genre_counts, lambda_relevance, i, best) ==
    IF i > Len(remaining) THEN best
    ELSE LET candidate == remaining[i]
             redundancy == compute_redundancy(candidate, selected)
             mmr_score == compute_mmr_score(lambda_relevance,
                                            candidate.relevance_score, redundancy)
             next == IF QuotaFull(genre_slots, genre_counts, candidate) THEN best
                     ELSE IF ~best.found \/ RLess(best.score, mmr_score)
                          THEN [found |-> TRUE, idx |-> i, score |-> mmr_score,
                                redundancy |-> redundancy]
                          ELSE best
         IN  ScanBest(remaining, selected, genre_slots, genre_counts,
                      lambda_relevance, i + 1, next)

RemoveAtKeepsChosen(seq, i) == seq
RemoveAt(seq, i) == SubSeq(seq, 1, i - 1) \o SubSeq(seq, i + 1, Len(seq))

\* the while loop of MMRDiversifier.diversify
RECURSIVE MMRLoop(_, _, _, _, _, _, _)
MMRLoop(selected, results, remaining, genre_counts, k, genre_slots, lambda_relevance) ==
    IF ~(Len(selected) < k /\ remaining # <<>>) THEN results
    ELSE LET best == ScanBest(remaining, selected, genre_slots, genre_counts,
                              lambda_relevance, 1, NoBest)
         IN  IF ~best.found THEN results
             ELSE LET chosen == remaining[best.idx]
                      genre == chosen.primary_genre
                      counts == IF DOMAIN genre_slots # {} /\ genre \in DOMAIN genre_counts
                                THEN [genre_counts EXCEPT ![genre] = @ + 1]
                                ELSE genre_counts
                  IN  MMRLoop(Append(selected, chosen),
                              Append(results,
                                     [id |-> chosen.id,
                                      relevance_score |-> chosen.relevance_score,
                                      mmr_score |-> best.score,
                                      redundancy_score |-> best.redundancy,
                                      rank |-> Len(results) + 1]),
                              RemoveAt(remaining, best.idx), counts, k,
                              genre_slots, lambda_relevance)

\* MMRDiversifier.diversify; genre_slots None is the empty map
mmr_diversify(candidates, k, genre_slots, lambda_relevance) ==
    IF candidates = <<>> THEN <<>>
    ELSE MMRLoop(<<>>, <<>>, candidates, [g \in DOMAIN genre_slots |-> 0], k,
                 genre_slots, lambda_relevance)

\* Counter(...) keys in insertion order: the genres in order of first occurrence
RECURSIVE GenreOrder(_, _, _)
GenreOrder(candidates, i, acc) ==
    IF i > Len(candidates) THEN acc
    ELSE LET g == candidates[i].primary_genre
         IN  GenreOrder(candidates, i + 1,
                        IF \E j \in 1..Len(acc) : acc[j] = g THEN acc ELSE Append(acc, g))

GenreCount(candidates, g) ==
    Cardinality({i \in 1..Len(candidates) : candidates[i].primary_genre = g})

\* first loop of allocate_genre_slots: min_per_genre for each genre until the
\* slots run out. Returns [slots, remaining_slots].
RECURSIVE AllocateMinimum(_, _, _, _, _)
AllocateMinimum(genres, i, slots, remaining_slots, min_per_genre) ==
    IF i > Len(genres) THEN [slots |-> slots, remaining_slots |-> remaining_slots]
    ELSE LET allocated == IF min_per_genre < remaining_slots THEN min_per_genre
                          ELSE remaining_slots
             slots2 == [g \in DOMAIN slots \cup {genres[i]} |->
                           IF g = genres[i] THEN allocated ELSE slots[g]]
         IN  IF remaining_slots - allocated <= 0
             THEN [slots |-> slots2, remaining_slots |-> remaining_slots - allocated]
             ELSE AllocateMinimum(genres, i + 1, slots2, remaining_slots - allocated,
                                  min_per_genre)

\* second loop: genres most common first, bonus = int(remaining * count / total)
RECURSIVE AllocateBonus(_, _, _, _, _)
AllocateBonus(common, i, slots, remaining_slots, total_items) ==
    IF i > Len(common) THEN slots
    ELSE LET g == common[i].genre
             bonus == (remaining_slots * common[i].count) \div total_items
             slots2 == [h \in DOMAIN slots \cup {g} |->
                           IF h = g
                           THEN (IF g \in DOMAIN slots THEN slots[g] ELSE 0) + bonus
                           ELSE slots[h]]
         IN  IF remaining_slots - bonus <= 0 THEN slots2
             ELSE AllocateBonus(common, i + 1, slots2, remaining_slots - bonus, total_items)

allocate_genre_slots(candidates, total_slots, min_per_genre) ==
    LET genres == GenreOrder(candidates, 1, <<>>)
        first == AllocateMinimum(genres, 1, <<>>, total_slots, min_per_genre)
        \* Counter.most_common(): by count descending, ties in insertion order
        common == SortDesc([i \in 1..Len(genres) |->
                              [genre |-> genres[i],
                               count |-> GenreCount(candidates, genres[i]),
                               key |-> <<GenreCount(candidates, genres[i]), 1>>]])
    IN  IF first.remaining_slots > 0
        THEN AllocateBonus(common, 1, first.slots, first.remaining_slots, Len(candidates))
        ELSE first.slots

-----------------------------------------------------------------------------
(* DiversityService (app/services/diversity.py) *)

mmr_lambda == Frac(7, 10)

\* candidate.get("final_score") or candidate.get("composite_score", 0)
RelevanceOf(candidate) ==
    IF candidate.final_score \in {None, RZero} THEN candidate.composite_score
    ELSE candidate.final_score

\* DiversityService.diversify with use_genre_slots = True. Pools of at most k
\* candidates are returned as they are (mmr_rank 0 marks "no MMR fields").
diversity_diversify(candidates, k) ==
    IF candidates = <<>> THEN <<>>
    ELSE IF Len(candidates) <= k
    THEN [i \in 1..Len(candidates) |->
            [output_id |-> candidates[i].output_id,
             primary_genre |-> candidates[i].primary_genre,
             mmr_rank |-> 0, mmr_score |-> RZero, redundancy_score |-> RZero]]
    ELSE LET genre_slots == allocate_genre_slots(candidates, k, 2)
             HasEmbedding(c) == c.embedding # NoEmbedding
             with_embedding == SelectSeq(candidates, HasEmbedding)
             mmr_candidates == [i \in 1..Len(with_embedding) |->
                                  [id |-> with_embedding[i].output_id,
                                   relevance_score |-> RelevanceOf(with_embedding[i]),
                                   embedding |-> with_embedding[i].embedding,
                                   primary_genre |-> with_embedding[i].primary_genre]]
             mmr_results == mmr_diversify(mmr_candidates, k, genre_slots, mmr_lambda)
             \* the candidates whose id is in result_ids, sorted by mmr_rank
             ByRank(r) == CHOOSE i \in 1..Len(candidates) :
                              candidates[i].output_id = mmr_results[r].id
         IN  [r \in 1..Len(mmr_results) |->
                [output_id |-> candidates[ByRank(r)].output_id,
                 primary_genre |-> candidates[ByRank(r)].primary_genre,
                 mmr_rank |-> mmr_results[r].rank,
                 mmr_score |-> mmr_results[r].mmr_score,
                 redundancy_score |-> mmr_results[r].redundancy_score]]

-----------------------------------------------------------------------------
(* NeuralReranker.rerank (app/services/neural_reranker.py) *)

rerank_blend_weight == Frac(6, 10)

\* the cross-encoder works
NoFailure == [at |-> "none", blended |-> 0]

\* top_k = top_k or settings.rerank_pool_size
TopK(top_k) == IF top_k = 0 THEN rerank_pool_size ELSE top_k

\* one turn of the blending loop: neural_score, normalized to [0, 1], blended
\* with the composite score into final_score
Blend(candidate, neural) ==
    LET neural_score == neural[candidate.output_id]
        normalized_neural ==
            RMax(RZero, RMin(ROne, RDiv(RAdd(neural_score, <<10, 1>>), <<20, 1>>)))
    IN  [candidate EXCEPT
            !.neural_score = neural_score,
            !.final_score = RAdd(RMul(rerank_blend_weight, normalized_neural),
                                 RMul(RSub(ROne, rerank_blend_weight),
                                      candidate.composite_score))]

\* x.get("final_score", 0) and x.get("composite_score", 0) as sort keys
FinalScoreKey(candidate) ==
    IF candidate.final_score = None THEN RZero ELSE candidate.final_score

\* list.sort(key=..., reverse=True) on the given key
SortByFinalScore(candidates) ==
    SortDesc([i \in 1..Len(candidates) |->
                [candidates[i] EXCEPT !.key = FinalScoreKey(candidates[i])]])

SortByCompositeScoreSkipped(candidates) == candidates
SortByCompositeScore(candidates) ==
    SortDesc([i \in 1..Len(candidates) |->
                [candidates[i] EXCEPT !.key = candidates[i].composite_score]])

\* available: enabled and FlashRank loaded; neural: raw cross-encoder score
\* per output; failure: where the try block raises (at "import", "inference",
\* or "blend" after `blended` candidates were updated in place), if it does.
rerank(candidates, top_k, available, neural, failure) ==
    IF candidates = <<>> THEN <<>>
    ELSE IF ~available THEN Take(candidates, TopK(top_k))
    ELSE IF Len(candidates) < 10
    THEN Take([i \in 1..Len(candidates) |->
                  [candidates[i] EXCEPT
                      !.neural_score = None,
                      !.final_score = candidates[i].composite_score]],
              TopK(top_k))
    ELSE IF failure.at = "none"
    THEN Take(SortByFinalScore([i \in 1..Len(candidates) |->
                                   Blend(candidates[i], neural)]),
              TopK(top_k))
    ELSE LET done == IF failure.at = "blend" THEN failure.blended ELSE 0
             partly == [i \in 1..Len(candidates) |->
                           IF i <= done THEN Blend(candidates[i], neural)
                           ELSE candidates[i]]
         IN  Take(SortByCompositeScore(partly), TopK(top_k))

-----------------------------------------------------------------------------
(* RetrievalService.retrieve_candidates (app/services/retrieval.py) *)

CatalogIds == {"A", "B", "C"}
CatalogOrder == <<"A", "B", "C">>
QueryEmbedding == <<5, 0>>

\* One row per AudioOutput of the catalog (the outputs that pass the
\* request's filters), left-joined with its statistics, ordered by
\* cosine distance to the query embedding (semantic_score descending).
retrieve_candidates(cat, st, query_embedding, limit) ==
    LET InCatalog(o) == o \in DOMAIN cat
        present == SelectSeq(CatalogOrder, InCatalog)
        rows == [i \in 1..Len(present) |->
                    LET o == present[i]
                        semantic == _cosine_similarity(cat[o].embedding, query_embedding)
                    IN  [output_id |-> o,
                         embedding |-> cat[o].embedding,
                         primary_genre |-> cat[o].primary_genre,
                         created_at |-> cat[o].created_at,
                         click_count |-> IF st[o].exists THEN st[o].click_count ELSE 0,
                         impression_count |->
                            IF st[o].exists THEN st[o].impression_count ELSE 0,
                         position_sum |-> IF st[o].exists THEN st[o].position_sum ELSE 0,
                         semantic_score |-> semantic,
                         key |-> semantic]]
    IN  Take(SortDesc(rows), limit)

-----------------------------------------------------------------------------
(* POST /search (app/routers/search.py) *)

\* rank_candidates returns {**candidate, **scores}: one flat dict per candidate
ScoredCandidates(ranked) ==
    [i \in 1..Len(ranked) |->
        [output_id |-> ranked[i].output_id,
         primary_genre |-> ranked[i].candidate.primary_genre,
         embedding |-> ranked[i].candidate.embedding,
         scores |-> ranked[i].scores,
         composite_score |-> ranked[i].scores.composite_score,
         neural_score |-> None,
         final_score |-> None,
         key |-> ranked[i].key]]

\* The SearchResult list with include_scores: results in order, each with its
\* 1-based position and the score breakdown of its candidate.
SearchResults_zero_based(final, scored) ==
    [i \in 1..Len(final) |->
        [output_id |-> final[i].output_id,
         position |-> i - 1,
         scores |-> scored[PositionOf(scored, final[i].output_id)].scores]]

SearchResults(final, scored) ==
    [i \in 1..Len(final) |->
        [output_id |-> final[i].output_id,
         position |-> i,
         scores |-> scored[PositionOf(scored, final[i].output_id)].scores]]

-----------------------------------------------------------------------------
(* StatisticsService.calibrate_position_propensities *)

NoTable == <<>>

\* cutoff.replace(day=cutoff.day - days) raises ValueError when the day of
\* the month it asks for is below 1.
CutoffRaises(today, days) == today - days < 1

CountAt(rows, position, actions, cutoff) ==
    Cardinality({r \in rows : /\ r.action_type \in actions
                              /\ r.created_at >= cutoff
                              /\ r.position_shown = position})

\* get_position_click_distribution: positions 1..20
get_position_click_distribution(rows, today, days) ==
    [pos \in 1..20 |->
        [clicks |-> CountAt(rows, pos, {"click"}, today - days),
         impressions |-> CountAt(rows, pos, {"click", "impression", "skip"},
                                 today - days)]]

calibrate_position_propensities(rows, today, days) ==
    LET distribution == get_position_click_distribution(rows, today, days)
        ctrs == [pos \in 1..20 |->
                    IF distribution[pos].impressions > 0
                    THEN Frac(distribution[pos].clicks, distribution[pos].impressions)
                    ELSE RZero]
    IN  IF RLess(RZero, ctrs[1])
        THEN [pos \in 1..20 |-> RDiv(ctrs[pos], ctrs[1])]
        ELSE position_propensities

\* calibrate_propensities_from_data (app/core/position_bias.py): click_data
\* is a list of <<position, clicked>>; the result has the positions of the data
PositionsOf(click_data) == {click_data[i][1] : i \in 1..Len(click_data)}

ImpressionsAt(click_data, position) ==
    Cardinality({i \in 1..Len(click_data) : click_data[i][1] = position})

ClicksAt(click_data, position) ==
    Cardinality({i \in 1..Len(click_data) :
                    click_data[i][1] = position /\ click_data[i][2]})

calibrate_propensities_from_data(click_data, smoothing) ==
    LET propensities ==
            [position \in PositionsOf(click_data) |->
                Frac(ClicksAt(click_data, position) + smoothing,
                     ImpressionsAt(click_data, position) + 2 * smoothing)]
    IN  IF 1 \in DOMAIN propensities /\ RLess(RZero, propensities[1])
        THEN [position \in DOMAIN propensities |->
                 RDiv(propensities[position], propensities[1])]
        ELSE propensities

-----------------------------------------------------------------------------
(* EmbeddingService.embed_query (app/services/embedding.py) *)

embedding_model == "text-embedding-3-small"

embedding_dimension == 1536

\* A query is a sequence of characters. str.lower and str.strip:
Lower(query) ==
    [i \in 1..Len(query) |-> IF query[i] = "A" THEN "a" ELSE query[i]]

RECURSIVE LStrip(_)
LStrip(query) ==
    IF query = <<>> THEN <<>>
    ELSE IF Head(query) = " " THEN LStrip(Tail(query)) ELSE query

RECURSIVE RStrip(_)
RStrip(query) ==
    IF query = <<>> THEN <<>>
    ELSE IF query[Len(query)] = " " THEN RStrip(SubSeq(query, 1, Len(query) - 1))
    ELSE query

Strip(query) == RStrip(LStrip(query))

\* the float64 vector the provider returns for a text, and np.zeros(dimension)
Embed(text) == [of |-> text, dtype |-> "float64", dimension |-> embedding_dimension]

Zeros == [of |-> <<"zeros">>, dtype |-> "float64", dimension |-> embedding_dimension]

\* @retry(stop=stop_after_attempt(3), ..., reraise=True)
stop_after_attempt_once == Len(<<"first attempt">>)
stop_after_attempt == 3

\* provider[n] is what the n-th embeddings.create call does: "ok" or "error"
RECURSIVE _embed_with_retry(_, _, _)
_embed_with_retry(text, provider, attempt) ==
    IF provider[attempt] = "ok"
    THEN [outcome |-> "returned", error |-> "none", value |-> Embed(text),
          provider_calls |-> attempt]
    ELSE IF attempt >= stop_after_attempt
    THEN [outcome |-> "raised", error |-> "provider", value |-> Zeros,
          provider_calls |-> attempt]
    ELSE _embed_with_retry(text, provider, attempt + 1)

embed_query(query, provider) ==
    IF query = <<>> \/ Strip(query) = <<>>
    THEN [outcome |-> "returned", error |-> "none", value |-> Zeros,
          provider_calls |-> 0]
    ELSE _embed_with_retry(query, provider, 1)

-----------------------------------------------------------------------------
(* EmbeddingCache (app/services/cache.py) *)

EMBEDDING_TTL == 3600

NoEntry == [exists |-> FALSE]

\* hashlib.md5(...).hexdigest(): one digest per text
md5(text) == <<"md5", text>>

_cache_key_case_sensitive(query) == <<"emb", embedding_model, md5(Strip(query))>>
_cache_key(query) == <<"emb", embedding_model, md5(Strip(Lower(query)))>>

\* embedding.astype(np.float32).tobytes(), and np.frombuffer on reading
ToBytes(embedding) ==
    [kind |-> "float32", dimension |-> embedding.dimension,
     vector |-> [embedding EXCEPT !.dtype = "float32"]]

\* env.client: "up", "down" (get_redis_client returns None) or "down then up"
\* (None for get, connected for set); env.read: "ok", "error" (the GET raises)
\* or "delete error" (the DELETE raises); env.write: "ok" or "error".
cache_get_trusts_blob(store, query, env) ==
    IF env.client # "up"
    THEN [hit |-> FALSE, value |-> Zeros, store |-> store,
          problems |-> {"client unavailable"}]
    ELSE IF env.read = "error"
    THEN [hit |-> FALSE, value |-> Zeros, store |-> store, problems |-> {"read failed"}]
    ELSE LET cached == store[_cache_key(query)]
         IN  IF ~cached.exists
             THEN [hit |-> FALSE, value |-> Zeros, store |-> store, problems |-> {}]
             ELSE IF cached.blob.kind = "truncated"
             THEN [hit |-> FALSE, value |-> Zeros, store |-> store,
                   problems |-> {"decode failed"}]
             ELSE [hit |-> TRUE, value |-> cached.blob.vector, store |-> store,
                   problems |-> IF cached.blob.dimension = embedding_dimension
                                THEN {} ELSE {"wrong dimension"}]
cache_get(store, query, env) ==
    IF env.client # "up"
    THEN [hit |-> FALSE, value |-> Zeros, store |-> store,
          problems |-> {"client unavailable"}]
    ELSE IF env.read = "error"
    THEN [hit |-> FALSE, value |-> Zeros, store |-> store, problems |-> {"read failed"}]
    ELSE LET cached == store[_cache_key(query)]
         IN  IF ~cached.exists
             THEN [hit |-> FALSE, value |-> Zeros, store |-> store, problems |-> {}]
             ELSE IF cached.blob.kind = "truncated"
             THEN [hit |-> FALSE, value |-> Zeros, store |-> store,
                   problems |-> {"decode failed"}]
             ELSE IF cached.blob.dimension = embedding_dimension
             THEN [hit |-> TRUE, value |-> cached.blob.vector, store |-> store,
                   problems |-> {}]
             ELSE IF env.read = "delete error"
             THEN [hit |-> FALSE, value |-> Zeros, store |-> store,
                   problems |-> {"wrong dimension", "delete failed"}]
             ELSE [hit |-> FALSE, value |-> Zeros,
                   store |-> [store EXCEPT ![_cache_key(query)] = NoEntry],
                   problems |-> {"wrong dimension"}]

\* written_for notes the query of the call that wrote the entry
cache_set(store, query, embedding, env) ==
    IF env.client = "down"
    THEN [store |-> store, problems |-> {"client unavailable"}]
    ELSE IF env.write = "error"
    THEN [store |-> store, problems |-> {"write failed"}]
    ELSE [store |-> [store EXCEPT ![_cache_key(query)] =
                        [exists |-> TRUE, blob |-> ToBytes(embedding),
                         ttl |-> EMBEDDING_TTL, written_for |-> query]],
          problems |-> {}]

\* get_or_compute with compute_func = embed_query, as retrieve_candidates
\* calls it: the result, the store afterwards, the number of compute_func
\* calls and the cache problems met on the way
get_or_compute(store, query, env) ==
    LET cached == cache_get(store, query, env)
    IN  IF cached.hit
        THEN [outcome |-> "returned", error |-> "none", value |-> cached.value,
              computes |-> 0, provider_calls |-> 0, store |-> cached.store,
              problems |-> cached.problems]
        ELSE LET embedding == embed_query(query, env.provider)
             IN  IF embedding.outcome = "raised"
                 THEN [outcome |-> "raised", error |-> embedding.error,
                       value |-> Zeros, computes |-> 1,
                       provider_calls |-> embedding.provider_calls,
                       store |-> cached.store, problems |-> cached.problems]
                 ELSE LET written == cache_set(cached.store, query, embedding.value, env)
                      IN  [outcome |-> "returned", error |-> "none",
                           value |-> embedding.value, computes |-> 1,
                           provider_calls |-> embedding.provider_calls,
                           store |-> written.store,
                           problems |-> cached.problems \cup written.problems]

-----------------------------------------------------------------------------
(* The diversity stage called on a pool *)

Genres == {"pop", "rock"}

\* <<score, embedding>> of a pooled candidate: a strong match on the query
\* axis, an equally strong one off it, and a weak one on it.
Profiles == {<<Frac(9, 10), <<5, 0>>>>, <<Frac(9, 10), <<3, 4>>>>, <<Frac(1, 2), <<5, 0>>>>}

\* the reranked pools of n candidates
Pools(n) ==
    {[i \in 1..n |->
        [output_id |-> i,
         primary_genre |-> f[i][1],
         final_score |-> f[i][2][1],
         composite_score |-> f[i][2][1],
         embedding |-> f[i][2][2]]] :
     f \in [1..n -> Genres \X Profiles]}

Diversify ==
    /\ dpc = "called"
    /\ dout' = diversity_diversify(dpool, dk)
    /\ dpc' = "returned"
    /\ UNCHANGED <<stats, log, clock, feedbackVars, refreshVars, dpool, dk, dlambda,
                   dslots, searchVars, callVars>>

\* MMRDiversifier(lambda_relevance) called on its own
MMRProfiles ==
    {<<r, e>> : r \in {Frac(9, 10), Frac(1, 2)}, e \in {<<5, 0>>, <<3, 4>>, <<0, 5>>}}

\* the MMRCandidate lists of n candidates, in every input order; the genre
\* goes with the embedding
MMRPools(n) ==
    {[i \in 1..n |->
        [id |-> i,
         relevance_score |-> f[i][1],
         embedding |-> f[i][2],
         primary_genre |-> IF f[i][2] = <<5, 0>> THEN "pop" ELSE "rock"]] :
     f \in [1..n -> MMRProfiles]}

\* diversifier.diversify(candidates, k, genre_slots), genre_slots None or the
\* allocation of allocate_genre_slots for the list
MMRDiversify ==
    /\ dpc = "called"
    /\ \E genre_slots \in {<<>>, allocate_genre_slots(dpool, dk, 2)} :
          /\ dslots' = genre_slots
          /\ dout' = mmr_diversify(dpool, dk, genre_slots, dlambda)
    /\ dpc' = "returned"
    /\ UNCHANGED <<stats, log, clock, feedbackVars, refreshVars, dpool, dk, dlambda,
                   searchVars, callVars>>

-----------------------------------------------------------------------------
(* The search scenario: search, feedback on what was shown, calibration,
   search again (scripts/test_ranking.py) *)

NoSearch == [done |-> FALSE]
ExplorationDraws == {Frac(1, 10), Frac(9, 10)}
CalibrationDays == {7, 30}

\* A (semantic 1.0) and B (0.8) are fixed; C is close behind B or far behind.
Catalogs ==
    {[o \in CatalogIds |->
        [embedding |-> IF o = "A" THEN <<5, 0>> ELSE IF o = "B" THEN <<4, 3>> ELSE e,
         primary_genre |-> IF o = "A" THEN "pop" ELSE "rock",
         created_at |-> Today]] :
     e \in {<<3, 4>>, <<0, 5>>}}

\* POST /search with the default limit: retrieval, composite ranking, neural
\* reranking, MMR diversification to the request's limit, response. draws are the values the Thompson
\* sampler returns for the candidates of this request; the reranker may or
\* may not be loaded.
\* request.limit of the requests of the scenario: the default (0 stands for
\* None: limit or final_result_size) unless the scenario names the limits
RequestLimits == IF args = <<>> THEN {0} ELSE args.limits

Search ==
    /\ phase \in {"start", "shown"}
    /\ \E draws \in [CatalogIds -> ExplorationDraws], available \in BOOLEAN,
          limit \in RequestLimits :
       \E candidates \in {retrieve_candidates(catalog, stats, QueryEmbedding,
                                              candidate_pool_size)} :
       \E ranked \in {rank_candidates(position_propensities, candidates,
                                      composite_pool_size, clock, draws)} :
       \E scored \in {ScoredCandidates(ranked)} :
       \E reranked \in {rerank(scored, rerank_pool_size, available,
                               [o \in CatalogIds |-> RZero], NoFailure)} :
       \E final \in {diversity_diversify(reranked, IF limit = 0 THEN final_result_size
                                                     ELSE limit)} :
          LET response == [done |-> TRUE,
                           results |-> SearchResults(final, scored),
                           total_candidates |-> Len(candidates),
                           calibrated |-> calibrated]
          IN  IF phase = "start"
              THEN baseline' = response /\ last' = last /\ phase' = "shown"
              ELSE last' = response /\ baseline' = baseline /\ phase' = "done"
    /\ UNCHANGED <<stats, log, clock, feedbackVars, refreshVars, diversityVars, callVars,
                   catalog, calibrated>>

\* The client reports a click or a skip on a result of the first search, at
\* the position it was shown; the request commits (the whole of
\* record_feedback and get_db).
ClientFeedback(o, a) ==
    /\ phase = "shown"
    /\ Cardinality(log) < MaxEvents
    /\ PositionOf(baseline.results, o) > 0
    /\ LET p == PositionOf(baseline.results, o)
           id == 1 + Cardinality({r \in log : r.output_id = o /\ r.action_type = a})
       IN  /\ stats' = [stats EXCEPT ![o] = stats_upsert(stats[o], a, p, clock)]
           /\ log' = log \cup {Interaction(id, o, a, p, clock)}
    /\ UNCHANGED <<clock, feedbackVars, refreshVars, diversityVars, searchVars, callVars>>

\* An offline run of calibrate_position_propensities(days); a run that
\* raises returns no table.
Calibrate(days) ==
    /\ phase = "shown"
    /\ ~CutoffRaises(clock, days)
    /\ calibrated' = calibrate_position_propensities(log, clock, days)
    /\ UNCHANGED <<stats, log, clock, feedbackVars, refreshVars, diversityVars, callVars,
                   catalog, phase, baseline, last>>

CalibrateRaises(days) ==
    /\ phase = "shown"
    /\ CutoffRaises(clock, days)
    /\ UNCHANGED vars

-----------------------------------------------------------------------------
(* Specifications *)

InitDb ==
    /\ stats \in [Outputs -> {IngestedRow, NoRow}]
    /\ log = {}
    /\ clock = 1

InitFeedback ==
    /\ pc = [w \in Writers |-> "idle"]
    /\ req = [w \in Writers |-> NoReq]
    /\ pending = [w \in Writers |-> NoRow]
    /\ resp = [w \in Writers |-> NoRow]

InitRefresh ==
    /\ rpc = "idle"
    /\ rtargets = {}
    /\ rpending = [o \in Outputs |-> NoRow]
    /\ rcount = 0

NoDiversity ==
    /\ dpool = <<>>
    /\ dk = 0
    /\ dout = <<>>
    /\ dpc = "idle"
    /\ dlambda = mmr_lambda
    /\ dslots = <<>>

NoSearchScenario ==
    /\ catalog = <<>>
    /\ phase = "idle"
    /\ baseline = NoSearch
    /\ last = NoSearch
    /\ calibrated = NoTable

NoCall ==
    /\ args = <<>>
    /\ ret = <<>>
    /\ cpc = "idle"
    /\ redis = <<>>

NoFeedback ==
    /\ pc = [w \in Writers |-> "absent"]
    /\ req = [w \in Writers |-> NoReq]
    /\ pending = [w \in Writers |-> NoRow]
    /\ resp = [w \in Writers |-> NoRow]
    /\ rpc = "absent"
    /\ rtargets = {}
    /\ rpending = [o \in Outputs |-> NoRow]
    /\ rcount = 0

\* Spec: concurrent feedback requests on one output and one statistics refresh
Init ==
    InitDb /\ InitFeedback /\ InitRefresh /\ NoDiversity /\ NoSearchScenario /\ NoCall

Next ==
    \/ \E w \in Writers : Begin(w)
    \/ \E w \in Writers : Upsert(w)
    \/ \E w \in Writers : Flush(w)
    \/ \E w \in Writers : GetStats(w)
    \/ \E w \in Writers : Fail(w)
    \/ \E w \in Writers : Commit(w)
    \/ \E w \in Writers : Rollback(w)
    \/ RefreshBegin
    \/ \E o \in Outputs : RefreshRow(o)
    \/ RefreshCommit

Spec == Init /\ [][Next]_vars

\* SpecDiversity: DiversityService.diversify on every pool up to MaxCands
InitDiversity ==
    /\ stats = [o \in Outputs |-> IngestedRow]
    /\ log = {}
    /\ clock = 1
    /\ NoFeedback
    /\ NoSearchScenario
    /\ NoCall
    /\ \E n \in 1..MaxCands : dpool \in Pools(n)
    /\ dk \in 1..MaxCands
    /\ dout = <<>>
    /\ dpc = "called"
    /\ dlambda = mmr_lambda
    /\ dslots = <<>>

NextDiversity == Diversify

SpecDiversity == InitDiversity /\ [][NextDiversity]_vars

\* SpecMMR: MMRDiversifier.diversify at the two ends of lambda, on every
\* candidate list up to MaxCands in every order, with and without genre slots
InitMMR ==
    /\ stats = [o \in Outputs |-> IngestedRow]
    /\ log = {}
    /\ clock = 1
    /\ NoFeedback
    /\ NoSearchScenario
    /\ NoCall
    /\ \E n \in 1..MaxCands : dpool \in MMRPools(n)
    /\ dk \in 1..MaxCands
    /\ dout = <<>>
    /\ dpc = "called"
    /\ dlambda \in {RZero, ROne}
    /\ dslots = <<>>

NextMMR == MMRDiversify

SpecMMR == InitMMR /\ [][NextMMR]_vars

\* SpecMMRLoop: the call at the default lambda, one turn of its while loop
\* at a time. ret holds the locals selected, remaining and genre_counts;
\* dout is results.
MMREnter ==
    /\ dpc = "called"
    /\ dout' = <<>>
    /\ IF dpool = <<>>
       THEN dpc' = "returned" /\ ret' = ret
       ELSE /\ dpc' = "looping"
            /\ ret' = [selected |-> <<>>, remaining |-> dpool,
                       genre_counts |-> [g \in DOMAIN dslots |-> 0]]
    /\ UNCHANGED <<stats, log, clock, feedbackVars, refreshVars, dpool, dk, dlambda,
                   dslots, searchVars, args, cpc, redis>>

\* while len(selected) < k and remaining
MMRContinues == Len(ret.selected) < dk /\ ret.remaining # <<>>

MMRBest == ScanBest(ret.remaining, ret.selected, dslots, ret.genre_counts, dlambda,
                    1, NoBest)

\* a turn that pops the chosen candidate and appends its MMRResult
MMRIterate ==
    /\ dpc = "looping"
    /\ MMRContinues
    /\ \E best \in {MMRBest} :
          /\ best.found
          /\ LET chosen == ret.remaining[best.idx]
                 genre == chosen.primary_genre
             IN  /\ ret' = [selected |-> Append(ret.selected, chosen),
                            remaining |-> RemoveAt(ret.remaining, best.idx),
                            genre_counts |->
                               IF DOMAIN dslots # {} /\ genre \in DOMAIN ret.genre_counts
                               THEN [ret.genre_counts EXCEPT ![genre] = @ + 1]
                               ELSE ret.genre_counts]
                 /\ dout' = Append(dout, [id |-> chosen.id,
                                          relevance_score |-> chosen.relevance_score,
                                          mmr_score |-> best.score,
                                          redundancy_score |-> best.redundancy,
                                          rank |-> Len(dout) + 1])
    /\ UNCHANGED <<stats, log, clock, feedbackVars, refreshVars, dpool, dk, dlambda,
                   dslots, dpc, searchVars, args, cpc, redis>>

\* the loop condition fails, or best_score stayed -inf and the loop breaks:
\* return results
MMRReturn ==
    /\ dpc = "looping"
    /\ ~MMRContinues \/ ~MMRBest.found
    /\ dpc' = "returned"
    /\ UNCHANGED <<stats, log, clock, feedbackVars, refreshVars, dpool, dk, dout,
                   dlambda, dslots, searchVars, callVars>>

InitMMRLoop ==
    /\ stats = [o \in Outputs |-> IngestedRow]
    /\ log = {}
    /\ clock = 1
    /\ NoFeedback
    /\ NoSearchScenario
    /\ NoCall
    /\ \E n \in 0..MaxCands : dpool \in MMRPools(n)
    /\ dk \in 1..MaxCands
    /\ dout = <<>>
    /\ dpc = "called"
    /\ dlambda = mmr_lambda
    /\ dslots \in IF dpool = <<>> THEN {<<>>}
                  ELSE {<<>>, allocate_genre_slots(dpool, dk, 2)}

NextMMRLoop == MMREnter \/ MMRIterate \/ MMRReturn

SpecMMRLoop == InitMMRLoop /\ [][NextMMRLoop]_vars

\* Spec: one call of NeuralReranker.rerank.  The list is a head of up to
\* MaxHead candidates, alone (fewer than 10 candidates) or followed by
\* FillerSize candidates of composite score 1/2 and neural score 0 (10 or
\* more candidates, the cross-encoder path).
MaxHead == 2

FillerSize == 9

HeadComposites == {Frac(1, 5), Frac(4, 5)}

HeadNeurals == {<<0 - 20, 1>>, <<5, 1>>}

RerankCandidate(id, composite) ==
    [output_id |-> id, composite_score |-> composite,
     neural_score |-> None, final_score |-> None, key |-> RZero]

RerankLists(h, long) ==
    {[i \in 1..(IF long THEN h + FillerSize ELSE h) |->
         RerankCandidate(i, IF i <= h THEN composites[i] ELSE Frac(1, 2))] :
     composites \in [1..h -> HeadComposites]}

NeuralScores(h, long) ==
    {[i \in 1..(IF long THEN h + FillerSize ELSE h) |->
         IF i <= h THEN scores[i] ELSE RZero] :
     scores \in [1..h -> HeadNeurals]}

Failures(n) ==
    {NoFailure, [at |-> "import", blended |-> 0], [at |-> "inference", blended |-> 0]}
    \cup {[at |-> "blend", blended |-> j] : j \in 0..(n - 1)}

Rerank ==
    /\ cpc = "called"
    /\ ret' = rerank(args.candidates, args.top_k, args.enabled /\ args.loaded,
                     args.neural, args.failure)
    /\ cpc' = "returned"
    /\ UNCHANGED <<stats, log, clock, feedbackVars, refreshVars, diversityVars,
                   searchVars, args, redis>>

InitRerank ==
    /\ stats = [o \in Outputs |-> IngestedRow]
    /\ log = {}
    /\ clock = 1
    /\ NoFeedback
    /\ NoDiversity
    /\ NoSearchScenario
    /\ \E h \in 1..MaxHead, long \in BOOLEAN :
          \E candidates \in RerankLists(h, long), neural \in NeuralScores(h, long),
             top_k \in 0..(MaxHead + 1), enabled \in BOOLEAN, loaded \in BOOLEAN,
             failure \in Failures(IF long THEN h + FillerSize ELSE h) :
             args = [candidates |-> candidates, top_k |-> top_k, enabled |-> enabled,
                     loaded |-> loaded, neural |-> neural, failure |-> failure]
    /\ ret = <<>>
    /\ cpc = "called"
    /\ redis = <<>>

NextRerank == Rerank

SpecRerank == InitRerank /\ [][NextRerank]_vars

\* Spec: two calls of RankingService.rank_candidates on the same candidates
\* with unchanged statistics; each call has its own Thompson draws.
MaxRank == 3

RankSemantics == {Frac(1, 2), ROne}

\* (click_count, impression_count, position_sum): never shown, or shown
\* twice at position 1 and clicked once
RankStatistics == {<<0, 0, 0>>, <<1, 2, 2>>}

RankLists(n) ==
    {[i \in 1..n |->
         [output_id |-> i,
          semantic_score |-> kinds[i][1],
          click_count |-> kinds[i][2][1],
          impression_count |-> kinds[i][2][2],
          position_sum |-> kinds[i][2][3],
          created_at |-> Today]] :
     kinds \in [1..n -> RankSemantics \X RankStatistics]}

RankCandidates ==
    /\ cpc = "called"
    /\ \E draws \in [1..Len(args.candidates) -> ExplorationDraws] :
          ret' = <<rank_candidates(position_propensities, args.candidates,
                                   args.limit, clock, draws)>>
    /\ cpc' = "ranked"
    /\ UNCHANGED <<stats, log, clock, feedbackVars, refreshVars, diversityVars,
                   searchVars, args, redis>>

RankCandidatesAgain ==
    /\ cpc = "ranked"
    /\ \E draws \in [1..Len(args.candidates) -> ExplorationDraws] :
          ret' = Append(ret, rank_candidates(position_propensities, args.candidates,
                                             args.limit, clock, draws))
    /\ cpc' = "ranked again"
    /\ UNCHANGED <<stats, log, clock, feedbackVars, refreshVars, diversityVars,
                   searchVars, args, redis>>

InitRank ==
    /\ stats = [o \in Outputs |-> IngestedRow]
    /\ log = {}
    /\ clock = Today
    /\ NoFeedback
    /\ NoDiversity
    /\ NoSearchScenario
    /\ \E n \in 1..MaxRank, limit \in 0..MaxRank :
          \E candidates \in RankLists(n) :
             args = [candidates |-> candidates, limit |-> limit]
    /\ ret = <<>>
    /\ cpc = "called"
    /\ redis = <<>>

NextRank == RankCandidates \/ RankCandidatesAgain

SpecRank == InitRank /\ [][NextRank]_vars

\* Spec: one call of PositionBiasCorrector.compute_simplified_debiased_ctr.
\* The corrector holds the settings table, or a table whose second position
\* was never clicked (propensity 0, below the 0.01 floor).
MaxImpressions == 4

MaxPositionSum == 12

PropensityTables ==
    {position_propensities, <<ROne, RZero>>}

DebiasArguments ==
    [clicks : 0..MaxImpressions, impressions : 0..MaxImpressions,
     position_sum : 0..MaxPositionSum, propensities : PropensityTables]
    \cup {[clicks |-> 10, impressions |-> 100, position_sum |-> 200,
           propensities |-> position_propensities]}

DebiasedCtr ==
    /\ cpc = "called"
    /\ ret' = compute_simplified_debiased_ctr(args.propensities, args.clicks,
                                              args.impressions, args.position_sum)
    /\ cpc' = "returned"
    /\ UNCHANGED <<stats, log, clock, feedbackVars, refreshVars, diversityVars,
                   searchVars, args, redis>>

InitDebias ==
    /\ stats = [o \in Outputs |-> IngestedRow]
    /\ log = {}
    /\ clock = 1
    /\ NoFeedback
    /\ NoDiversity
    /\ NoSearchScenario
    /\ args \in DebiasArguments
    /\ ret = <<>>
    /\ cpc = "called"
    /\ redis = <<>>

NextDebias == DebiasedCtr

SpecDebias == InitDebias /\ [][NextDebias]_vars

\* Spec: calibration from a dataset of up to MaxClickData impressions at
\* positions 1 and 2, by either calibration routine: the offline function on
\* the (position, clicked) pairs, or the statistics service on the same
\* events as interaction rows of today.
MaxClickData == 3

ClickData ==
    UNION {[1..n -> {1, 2} \X BOOLEAN] : n \in 0..MaxClickData}

\* the interaction rows of a dataset: a click row where the impression was
\* clicked, a skip row where it was not
RowsOf(click_data) ==
    {[id |-> i,
      action_type |-> IF click_data[i][2] THEN "click" ELSE "skip",
      position_shown |-> click_data[i][1],
      created_at |-> Today] : i \in 1..Len(click_data)}

CalibrateFromData ==
    /\ cpc = "called"
    /\ ret' = [by |-> "calibrate_propensities_from_data",
               table |-> calibrate_propensities_from_data(args.click_data, 1)]
    /\ cpc' = "returned"
    /\ UNCHANGED <<stats, log, clock, feedbackVars, refreshVars, diversityVars,
                   searchVars, args, redis>>

CalibrateFromLog ==
    /\ cpc = "called"
    /\ \E days \in CalibrationDays :
          /\ ~CutoffRaises(Today, days)
          /\ ret' = [by |-> "calibrate_position_propensities",
                     table |-> calibrate_position_propensities(
                                   RowsOf(args.click_data), Today, days)]
    /\ cpc' = "returned"
    /\ UNCHANGED <<stats, log, clock, feedbackVars, refreshVars, diversityVars,
                   searchVars, args, redis>>

InitCalibrate ==
    /\ stats = [o \in Outputs |-> IngestedRow]
    /\ log = {}
    /\ clock = Today
    /\ NoFeedback
    /\ NoDiversity
    /\ NoSearchScenario
    /\ \E click_data \in ClickData : args = [click_data |-> click_data]
    /\ ret = <<>>
    /\ cpc = "called"
    /\ redis = <<>>

NextCalibrate == CalibrateFromData \/ CalibrateFromLog

SpecCalibrate == InitCalibrate /\ [][NextCalibrate]_vars

\* Spec: one call of get_position_click_distribution(days) on a log of up to
\* MaxRows interactions of the current month, on day `today` of the month.
MaxRows == 2

DistributionDays == {1, 7, 30}

DistributionToday == {Today, 31}

\* rows at and outside the edges of the position range, created on the
\* cutoff day of a 7-day window from Today and on the day before it
RowKinds ==
    [action_type : {"click", "skip", "like"},
     position_shown : {0, 1, 20, 21},
     created_at : {Today - 8, Today - 7}]

InteractionLists == UNION {[1..n -> RowKinds] : n \in 0..MaxRows}

LoggedRows(list) ==
    {[id |-> i,
      action_type |-> list[i].action_type,
      position_shown |-> list[i].position_shown,
      created_at |-> list[i].created_at] : i \in 1..Len(list)}

GetDistribution ==
    /\ cpc = "called"
    /\ ret' = IF CutoffRaises(args.today, args.days)
              THEN [raised |-> "ValueError", distribution |-> <<>>]
              ELSE [raised |-> "nothing",
                    distribution |->
                       get_position_click_distribution(LoggedRows(args.rows),
                                                       args.today, args.days)]
    /\ cpc' = "returned"
    /\ UNCHANGED <<stats, log, clock, feedbackVars, refreshVars, diversityVars,
                   searchVars, args, redis>>

InitDistribution ==
    /\ stats = [o \in Outputs |-> IngestedRow]
    /\ log = {}
    /\ clock = Today
    /\ NoFeedback
    /\ NoDiversity
    /\ NoSearchScenario
    /\ \E rows \in InteractionLists, today \in DistributionToday,
          days \in DistributionDays :
          args = [rows |-> rows, today |-> today, days |-> days]
    /\ ret = <<>>
    /\ cpc = "called"
    /\ redis = <<>>

NextDistribution == GetDistribution

SpecDistribution == InitDistribution /\ [][NextDistribution]_vars

\* Spec: a sequence of get_or_compute calls over one Redis, with time passing
\* and with blobs left in Redis by another deployment (another embedding
\* dimension, or a damaged value).
Queries == {<<"a">>, <<"A", " ">>, <<" ", "a">>, <<" ">>}

CacheKeys == {_cache_key(query) : query \in Queries}

\* time passes in steps of half the TTL
TickSeconds == 1800

\* the provider answers at once, answers on its third call, or fails three
\* calls and would answer a fourth
ProviderBehaviours ==
    {[i \in 1..4 |-> IF i <= n THEN "error" ELSE "ok"] : n \in {0, 2, 3}}

\* with no client there is nothing to read or write; a client that appears
\* after the read can still fail the write
Environments ==
    [client : {"up"}, read : {"ok", "error", "delete error"},
     write : {"ok", "error"}, provider : ProviderBehaviours]
    \cup [client : {"down"}, read : {"ok"}, write : {"ok"},
          provider : ProviderBehaviours]
    \cup [client : {"down then up"}, read : {"ok"}, write : {"ok", "error"},
          provider : ProviderBehaviours]

ForeignBlobs ==
    {[kind |-> "float32", dimension |-> 2 * embedding_dimension,
      vector |-> [of |-> <<"foreign">>, dtype |-> "float32",
                  dimension |-> 2 * embedding_dimension]],
     [kind |-> "truncated", dimension |-> 0, vector |-> Zeros]}

NoCallYet ==
    [turn |-> 0, query |-> <<>>, outcome |-> "none", error |-> "none",
     value |-> Zeros, computes |-> 0, provider_calls |-> 0, problems |-> {}]

GetOrCompute(query, env) ==
    /\ redis # <<>>
    /\ \E result \in {get_or_compute(redis, query, env)} :
          /\ redis' = result.store
          /\ ret' = [turn |-> 1 - ret.turn, query |-> query,
                     outcome |-> result.outcome, error |-> result.error,
                     value |-> result.value, computes |-> result.computes,
                     provider_calls |-> result.provider_calls,
                     problems |-> result.problems]
    /\ UNCHANGED <<stats, log, clock, feedbackVars, refreshVars, diversityVars,
                   searchVars, args, cpc>>

\* Redis counts the TTLs down and drops the entries that reach 0
Elapse ==
    /\ redis # <<>>
    /\ \E key \in CacheKeys : redis[key].exists
    /\ redis' = [key \in CacheKeys |->
                    IF redis[key].exists /\ redis[key].ttl > TickSeconds
                    THEN [redis[key] EXCEPT !.ttl = @ - TickSeconds]
                    ELSE NoEntry]
    /\ UNCHANGED <<stats, log, clock, feedbackVars, refreshVars, diversityVars,
                   searchVars, args, ret, cpc>>

ForeignWrite(key, blob) ==
    /\ redis # <<>>
    /\ redis' = [redis EXCEPT ![key] =
                    [exists |-> TRUE, blob |-> blob, ttl |-> EMBEDDING_TTL,
                     written_for |-> <<"foreign">>]]
    /\ UNCHANGED <<stats, log, clock, feedbackVars, refreshVars, diversityVars,
                   searchVars, args, ret, cpc>>

InitCache ==
    /\ stats = [o \in Outputs |-> IngestedRow]
    /\ log = {}
    /\ clock = 1
    /\ NoFeedback
    /\ NoDiversity
    /\ NoSearchScenario
    /\ args = <<>>
    /\ ret = NoCallYet
    /\ cpc = "idle"
    /\ redis = [key \in CacheKeys |-> NoEntry]

NextCache ==
    \/ \E query \in Queries, env \in Environments : GetOrCompute(query, env)
    \/ Elapse
    \/ \E key \in CacheKeys, blob \in ForeignBlobs : ForeignWrite(key, blob)

SpecCache == InitCache /\ [][NextCache]_vars

\* Spec: one call of EmbeddingService.embed_query; the provider may fail or
\* answer each of the calls it receives.
EmbedQueries == Queries \cup {<<>>}

ProviderOutcomes == [1..4 -> {"ok", "error"}]

EmbedQuery ==
    /\ cpc = "called"
    /\ ret' = embed_query(args.query, args.provider)
    /\ cpc' = "returned"
    /\ UNCHANGED <<stats, log, clock, feedbackVars, refreshVars, diversityVars,
                   searchVars, args, redis>>

InitEmbed ==
    /\ stats = [o \in Outputs |-> IngestedRow]
    /\ log = {}
    /\ clock = 1
    /\ NoFeedback
    /\ NoDiversity
    /\ NoSearchScenario
    /\ \E query \in EmbedQueries, provider \in ProviderOutcomes :
          args = [query |-> query, provider |-> provider]
    /\ ret = <<>>
    /\ cpc = "called"
    /\ redis = <<>>

NextEmbed == EmbedQuery

SpecEmbed == InitEmbed /\ [][NextEmbed]_vars

\* Spec: two searches with limit 1, 2 or the default over the catalogs that
\* hold any of the outputs A, B, C (the outputs passing the filters), the
\* empty one included.
FilteredCatalogs ==
    {[o \in kept |-> cat[o]] : cat \in Catalogs, kept \in SUBSET CatalogIds}

InitResponse ==
    /\ stats = [o \in CatalogIds |-> IngestedRow]
    /\ log = {}
    /\ clock = Today
    /\ NoFeedback
    /\ NoDiversity
    /\ catalog \in FilteredCatalogs
    /\ phase = "start"
    /\ baseline = NoSearch
    /\ last = NoSearch
    /\ calibrated = NoTable
    /\ \E limit \in {0, 1, 2} : args = [limits |-> {limit}]
    /\ ret = <<>>
    /\ cpc = "idle"
    /\ redis = <<>>

NextResponse == Search

SpecResponse == InitResponse /\ [][NextResponse]_vars

-----------------------------------------------------------------------------
(* FeedbackService.record_batch_impressions under get_db *)

\* The two outputs of the batches and the two concurrent transactions.
BatchOutputs == {"A", "B"}
Transactions == {1, 2}

\* items: list[tuple[UUID, int]], the outputs of a result list with their
\* 1-based positions, in the order the caller lists them.
ItemLists ==
    {<<<<"A", 1>>>>, <<<<"B", 1>>>>,
     <<<<"A", 1>>, <<"B", 2>>>>, <<<<"B", 1>>, <<"A", 2>>>>}

\* Transaction t holds the row lock of every output it has upserted, until
\* its commit or rollback.
BatchHolds(t, o) == pending[t][o].exists

BatchRowLockAvailable(o, t) == \A u \in Transactions \ {t} : ~BatchHolds(u, o)

\* the output of the next item of the loop
NextOutput(t) == req[t].items[req[t].next][1]

\* t is suspended in db.execute(stats_upsert) on a row another transaction holds
BatchWaits(t) ==
    /\ pc[t] = "running"
    /\ req[t].next <= Len(req[t].items)
    /\ ~BatchRowLockAvailable(NextOutput(t), t)

\* One turn of the loop: record_impression -> record_interaction adds the
\* Interaction, executes the UPSERT (waiting for the row lock) and flushes;
\* count += 1.
RecordImpression(t) ==
    /\ pc[t] = "running"
    /\ req[t].next <= Len(req[t].items)
    /\ LET o == NextOutput(t)
           position == req[t].items[req[t].next][2]
           seen == IF pending[t][o].exists THEN pending[t][o] ELSE stats[o]
       IN  /\ BatchRowLockAvailable(o, t)
           /\ pending' = [pending EXCEPT ![t][o] =
                            stats_upsert(seen, "impression", position, clock)]
    /\ req' = [req EXCEPT ![t].next = @ + 1]
    /\ resp' = [resp EXCEPT ![t] = @ + 1]
    /\ UNCHANGED <<stats, log, clock, pc, refreshVars, diversityVars, searchVars, callVars>>

\* The storage layer finds the two transactions waiting for each other's row
\* and ends the wait of one of them: its db.execute raises DeadlockDetected,
\* which reaches get_db's except branch.
DeadlockDetected(t) ==
    /\ BatchWaits(t)
    /\ \E u \in Transactions \ {t} :
          /\ BatchHolds(u, NextOutput(t))
          /\ BatchWaits(u)
          /\ BatchHolds(t, NextOutput(u))
    /\ pc' = [pc EXCEPT ![t] = "failed"]
    /\ UNCHANGED <<stats, log, clock, req, pending, resp>>
    /\ UNCHANGED <<refreshVars, diversityVars, searchVars, callVars>>

\* get_db: await session.commit() after the loop returned count: the row
\* versions and the Interaction rows of the batch become visible at once.
BatchCommit(t) ==
    /\ pc[t] = "running"
    /\ req[t].next > Len(req[t].items)
    /\ stats' = [o \in BatchOutputs |->
                    IF pending[t][o].exists THEN pending[t][o] ELSE stats[o]]
    /\ log' = log \cup {Interaction(<<t, i>>, req[t].items[i][1], "impression",
                                     req[t].items[i][2], clock) :
                            i \in 1..Len(req[t].items)}
    /\ pending' = [pending EXCEPT ![t] = [o \in BatchOutputs |-> NoRow]]
    /\ pc' = [pc EXCEPT ![t] = "committed"]
    /\ UNCHANGED <<clock, req, resp, refreshVars, diversityVars, searchVars, callVars>>

\* get_db: except Exception: await session.rollback(); raise.
BatchRollback(t) ==
    /\ pc[t] = "failed"
    /\ pending' = [pending EXCEPT ![t] = [o \in BatchOutputs |-> NoRow]]
    /\ pc' = [pc EXCEPT ![t] = "rolled_back"]
    /\ UNCHANGED <<stats, log, clock, req, resp>>
    /\ UNCHANGED <<refreshVars, diversityVars, searchVars, callVars>>

\* Spec: two concurrent batches over the outputs A and B, in either order
InitBatch ==
    /\ stats \in [BatchOutputs -> {IngestedRow, NoRow}]
    /\ log = {}
    /\ clock = 1
    /\ pc = [t \in Transactions |-> "running"]
    /\ \E items \in [Transactions -> ItemLists] :
          req = [t \in Transactions |-> [items |-> items[t], next |-> 1]]
    /\ pending = [t \in Transactions |-> [o \in BatchOutputs |-> NoRow]]
    /\ resp = [t \in Transactions |-> 0]
    /\ rpc = "absent"
    /\ rtargets = {}
    /\ rpending = [o \in BatchOutputs |-> NoRow]
    /\ rcount = 0
    /\ NoDiversity
    /\ NoSearchScenario
    /\ NoCall

NextBatch ==
    \/ \E t \in Transactions : RecordImpression(t)
    \/ \E t \in Transactions : DeadlockDetected(t)
    \/ \E t \in Transactions : BatchCommit(t)
    \/ \E t \in Transactions : BatchRollback(t)

SpecBatch == InitBatch /\ [][NextBatch]_vars

\* Every step of a transaction that can be taken is taken in the end: the
\* event loop resumes each coroutine whose await has completed, and the
\* storage layer resolves every deadlock it finds.
FairBatch ==
    \A t \in Transactions :
        /\ WF_vars(RecordImpression(t))
        /\ WF_vars(DeadlockDetected(t))
        /\ WF_vars(BatchCommit(t))
        /\ WF_vars(BatchRollback(t))

SpecBatchFair == SpecBatch /\ FairBatch

\* SpecSearch: the sequential search / feedback / calibration scenario over
\* a freshly ingested catalog
InitSearch ==
    /\ stats = [o \in CatalogIds |-> IngestedRow]
    /\ log = {}
    /\ clock = Today
    /\ NoFeedback
    /\ NoDiversity
    /\ NoCall
    /\ catalog \in Catalogs
    /\ phase = "start"
    /\ baseline = NoSearch
    /\ last = NoSearch
    /\ calibrated = NoTable

NextSearch ==
    \/ Search
    \/ \E o \in CatalogIds, a \in {"click", "skip"} : ClientFeedback(o, a)
    \/ \E days \in CalibrationDays : Calibrate(days)
    \/ \E days \in CalibrationDays : CalibrateRaises(days)

SpecSearch == InitSearch /\ [][NextSearch]_vars

-----------------------------------------------------------------------------
(* Properties of the feedback write path *)

LogOf(o) == {r \in log : r.output_id = o}

RECURSIVE SumPositions(_)
SumPositions(rows) ==
    IF rows = {} THEN 0
    ELSE LET r == CHOOSE x \in rows : TRUE
         IN  r.position_shown + SumPositions(rows \ {r})

\* The counters of a row; a missing row counts as all zero.
CountersOf(row) ==
    IF row.exists
    THEN [impression_count |-> row.impression_count, click_count |-> row.click_count,
          like_count |-> row.like_count, position_sum |-> row.position_sum]
    ELSE [impression_count |-> 0, click_count |-> 0, like_count |-> 0, position_sum |-> 0]

AllRequestsDone == \A w \in Writers : pc[w] \in {"committed", "rolled_back"}

\* The requests that committed a click on output o (each logs the row with its id).
SucceededClicks(o) ==
    {w \in Writers : pc[w] = "committed" /\
        \E r \in LogOf(o) : r.id = w /\ r.action_type = "click"}

\* C1: once all concurrent feedback requests have finished, click_count of
\* every output equals its initial value (0) plus the number of click requests
\* on it that committed: no update lost, none counted twice.
C1_NoLostClicks ==
    AllRequestsDone =>
        \A o \in Outputs :
            CountersOf(stats[o]).click_count = Cardinality(SucceededClicks(o))

C1_Witness ==
    /\ AllRequestsDone
    /\ \E o \in Outputs : Cardinality(SucceededClicks(o)) >= 2

\* C2: the commit of a feedback request changes the counters of its output by
\* the per-action delta: click, impression and skip add 1 to impression_count,
\* click adds 1 to click_count, like adds 1 to like_count, and nothing else
\* changes among the three (play_complete changes none).
C2_PerActionDelta ==
    [][\A w \in Writers :
        (pc[w] = "responded" /\ pc'[w] = "committed") =>
            LET o == req[w].output_id
                a == req[w].action
                before == CountersOf(stats[o])
                after == CountersOf(stats'[o])
            IN  /\ after.impression_count - before.impression_count =
                      (IF a = "click" \/ a = "impression" \/ a = "skip" THEN 1 ELSE 0)
                /\ after.click_count - before.click_count = (IF a = "click" THEN 1 ELSE 0)
                /\ after.like_count - before.like_count = (IF a = "like" THEN 1 ELSE 0)
      ]_vars

C2_Witness ==
    \E r1, r2 \in log :
        /\ r1.action_type = "play_complete"
        /\ r2.action_type = "like"
        /\ CountersOf(stats[r2.output_id]).like_count = 1

\* What one logged Interaction row must have added to the counters.
ExpectedDelta(r) ==
    [impression_count |-> IF r.action_type \in {"click", "impression", "skip"} THEN 1 ELSE 0,
     click_count |-> IF r.action_type = "click" THEN 1 ELSE 0,
     like_count |-> IF r.action_type = "like" THEN 1 ELSE 0,
     position_sum |-> r.position_shown]

PlusDelta(c, d) ==
    [impression_count |-> c.impression_count + d.impression_count,
     click_count |-> c.click_count + d.click_count,
     like_count |-> c.like_count + d.like_count,
     position_sum |-> c.position_sum + d.position_sum]

\* C3: record_interaction is all-or-nothing. In every step, the committed
\* counters of an output change exactly when one Interaction row for it is
\* committed in the same step, and then by that row's delta; a request that
\* ends rolled back leaves the committed log and statistics as they were.
C3_AllOrNothing ==
    [][/\ \A o \in Outputs :
            LET new == LogOf(o)' \ LogOf(o)
            IN  IF new = {}
                THEN /\ CountersOf(stats'[o]) = CountersOf(stats[o])
                     /\ stats'[o].exists = stats[o].exists
                ELSE /\ Cardinality(new) = 1
                     /\ stats'[o].exists
                     /\ \A r \in new :
                           CountersOf(stats'[o]) =
                               PlusDelta(CountersOf(stats[o]), ExpectedDelta(r))
       /\ \A w \in Writers :
            (pc[w] # "rolled_back" /\ pc'[w] = "rolled_back") =>
                (log' = log /\ stats' = stats)
      ]_vars

\* one request rolled back, and another failed after its UPSERT took the row
C3_Witness ==
    \E w, v \in Writers :
        /\ pc[w] = "rolled_back"
        /\ pc[v] = "failed"
        /\ pending[v].exists

\* C4: in every committed state of item_statistics, under any interleaving of
\* feedback requests and the statistics refresh, click_count <= impression_count.
C4_ClicksAtMostImpressions ==
    \A o \in Outputs :
        stats[o].exists => stats[o].click_count <= stats[o].impression_count

C4_Witness ==
    \E o \in Outputs :
        /\ stats[o].exists
        /\ stats[o].click_count >= 2
        /\ rpc = "done"
        /\ rcount = 1

\* C5: position-sum law. With K logged events at positions p1..pK on an
\* output, position_sum is the sum of the p_i and get_output_stats reports
\* average_position = sum / K (0 when impression_count is 0).
C5_PositionSumLaw ==
    \A o \in Outputs :
        stats[o].exists =>
            LET K == Cardinality(LogOf(o))
                S == SumPositions(LogOf(o))
            IN  /\ stats[o].position_sum = S
                /\ get_output_stats(stats[o]).average_position =
                      (IF stats[o].impression_count = 0 THEN RZero ELSE Frac(S, K))

-----------------------------------------------------------------------------
(* Properties of the search / feedback / calibration scenario *)

\* the score breakdown a search response carries for output o
ScoresIn(response, o) == response.results[PositionOf(response.results, o)].scores

\* The only feedback between the two searches is clicks on x, each recorded
\* at the position the first search showed x at.
ClicksOnlyOn(x) ==
    /\ log # {}
    /\ \A r \in log : /\ r.output_id = x
                      /\ r.action_type = "click"
                      /\ r.position_shown = PositionOf(baseline.results, x)

\* the Thompson sampler returned the same value for every candidate in both
\* searches
SameDraws ==
    \A o \in CatalogIds :
        ScoresIn(baseline, o).exploration_score = ScoresIn(last, o).exploration_score

C8_ImpressionsLogged ==
    baseline.done =>
        \A i \in 1..Len(baseline.results) :
            \E r \in log : /\ r.action_type = "impression"
                           /\ r.output_id = baseline.results[i].output_id
                           /\ r.position_shown = i

\* C9: once calibrate_position_propensities has returned a table, the next
\* search computes the popularity term of every result with that table.
C9_RankingUsesCalibratedTable ==
    (phase = "done" /\ last.calibrated # NoTable) =>
        \A i \in 1..Len(last.results) :
            LET row == stats[last.results[i].output_id]
            IN  last.results[i].scores.popularity_score =
                    popularity_score(last.calibrated, row.click_count,
                                     row.impression_count, row.position_sum)

-----------------------------------------------------------------------------
(* Properties of the diversity stage *)

\* the slots DiversityService.diversify computes for the call
SlotsOfCall == allocate_genre_slots(dpool, dk, 2)

\* the call went through MMR with genre slots (pools of at most k candidates
\* are returned as they are)
DiversifiedWithSlots == dpc = "returned" /\ Len(dpool) > dk

\* C10 (as stated): for every genre of the pool, the returned list holds at
\* most as many results of the genre as slots were allocated to it, a genre
\* left out of the allocation because the k slots ran out counting as zero.
C10_GenreQuotaBound ==
    DiversifiedWithSlots =>
        \A g \in Genres :
            GenreCount(dpool, g) > 0 =>
                GenreCount(dout, g) <=
                    (IF g \in DOMAIN SlotsOfCall THEN SlotsOfCall[g] ELSE 0)

\* C10 (amended): for every genre that has an entry in the slot map, the
\* returned list holds at most as many results of the genre as its slots.
C10_QuotaBoundForAllocatedGenres ==
    DiversifiedWithSlots =>
        \A g \in DOMAIN SlotsOfCall : GenreCount(dout, g) <= SlotsOfCall[g]

\* a quota below k that was filled while the pool held more candidates of
\* the genre than the quota
C10_Witness ==
    /\ DiversifiedWithSlots
    /\ \E g \in DOMAIN SlotsOfCall :
          /\ GenreCount(dout, g) = SlotsOfCall[g]
          /\ GenreCount(dpool, g) > SlotsOfCall[g]
          /\ SlotsOfCall[g] < dk

\* C11: when the pool holds more than k candidates, all with embeddings,
\* DiversityService.diversify returns exactly k results.
C11_ReturnsExactlyK ==
    (/\ dpc = "returned"
     /\ Len(dpool) > dk
     /\ \A i \in 1..Len(dpool) : dpool[i].embedding # NoEmbedding)
    => Len(dout) = dk

-----------------------------------------------------------------------------
(* Properties of MMRDiversifier.diversify called on its own *)

\* candidate a ranks before candidate b by relevance, input order on ties
\* (the id of an MMRCandidate of the call is its place in the input)
BeforeByRelevance(a, b) ==
    \/ RLess(b.relevance_score, a.relevance_score)
    \/ a.relevance_score = b.relevance_score /\ a.id < b.id

PickedIds == {dout[r].id : r \in 1..Len(dout)}

\* C12: with lambda = 1 and no genre quotas the result is the first k
\* candidates in descending relevance, equal relevance in input order, each
\* with mmr_score equal to its relevance.
C12_LambdaOneIsRelevanceOrder ==
    (dpc = "returned" /\ dlambda = ROne /\ dslots = <<>>) =>
        /\ Len(dout) = (IF dk < Len(dpool) THEN dk ELSE Len(dpool))
        /\ \A r \in 1..Len(dout) :
              /\ dout[r].id \in 1..Len(dpool)
              /\ dout[r].rank = r
              /\ dout[r].relevance_score = dpool[dout[r].id].relevance_score
              /\ dout[r].mmr_score = dout[r].relevance_score
        /\ \A r, q \in 1..Len(dout) : r < q => BeforeByRelevance(dout[r], dout[q])
        /\ \A i \in 1..Len(dpool) \ PickedIds :
              \A r \in 1..Len(dout) : BeforeByRelevance(dout[r], dpool[i])

\* an input not in relevance order, with a tie, cut to k
C12_Witness ==
    /\ dpc = "returned" /\ dlambda = ROne /\ dslots = <<>>
    /\ dk < Len(dpool)
    /\ \E i, j \in 1..Len(dpool) :
          i < j /\ RLess(dpool[i].relevance_score, dpool[j].relevance_score)
    /\ \E r \in 1..(Len(dout) - 1) :
          dout[r].relevance_score = dout[r + 1].relevance_score

\* the candidates already selected when pick r is made
SelectedBefore(r) == {dout[j].id : j \in 1..(r - 1)}

\* the candidate's genre has a quota and picks before r used it up
QuotaUsedUp(i, r) ==
    /\ dslots # <<>>
    /\ dpool[i].primary_genre \in DOMAIN dslots
    /\ Cardinality({j \in SelectedBefore(r) :
                       dpool[j].primary_genre = dpool[i].primary_genre})
          >= dslots[dpool[i].primary_genre]

EligibleAt(r) == {i \in 1..Len(dpool) \ SelectedBefore(r) : ~QuotaUsedUp(i, r)}

\* largest cosine similarity of candidate i to the picks before r (r > 1)
MaxSimilarityTo(i, r) ==
    LET sims == {_cosine_similarity(dpool[i].embedding, dpool[j].embedding) :
                    j \in SelectedBefore(r)}
    IN  CHOOSE x \in sims : \A y \in sims : RLeq(y, x)

\* every pick after the first is an eligible candidate of the smallest
\* maximum similarity to the selected set, the first such in input order
LaterPicksLeastSimilar ==
    \A r \in 2..Len(dout) :
        /\ dout[r].id \in EligibleAt(r)
        /\ \A i \in EligibleAt(r) :
              \/ RLess(MaxSimilarityTo(dout[r].id, r), MaxSimilarityTo(i, r))
              \/ /\ MaxSimilarityTo(dout[r].id, r) = MaxSimilarityTo(i, r)
                 /\ dout[r].id <= i

\* C13 (as stated): with lambda = 0, whatever the input order, the first
\* pick is a candidate of highest relevance and every later pick is the
\* remaining eligible candidate least similar to the selected set.
C13_LambdaZeroFirstPickMostRelevant ==
    (dpc = "returned" /\ dlambda = RZero) =>
        /\ \A i \in 1..Len(dpool) :
              RLeq(dpool[i].relevance_score, dout[1].relevance_score)
        /\ LaterPicksLeastSimilar

\* C13 (amended): with lambda = 0 the first pick is the first candidate of
\* the input, whatever its relevance; every later pick is the remaining
\* eligible candidate least similar to the selected set (ties by input
\* order), and the selection ends only at k picks or with no eligible
\* candidate left.
C13_LambdaZeroPicksInInputOrder ==
    (dpc = "returned" /\ dlambda = RZero) =>
        /\ dout[1].id = 1
        /\ LaterPicksLeastSimilar
        /\ Len(dout) = dk \/ EligibleAt(Len(dout) + 1) = {}

\* the first pick is less relevant than a later candidate, and a later pick
\* passed over an earlier candidate that was more similar to the selection
C13_Witness ==
    /\ dpc = "returned" /\ dlambda = RZero
    /\ \E i \in 1..Len(dpool) :
          RLess(dout[1].relevance_score, dpool[i].relevance_score)
    /\ \E r \in 2..Len(dout) :
          \E i \in EligibleAt(r) :
              /\ i < dout[r].id
              /\ RLess(MaxSimilarityTo(dout[r].id, r), MaxSimilarityTo(i, r))

-----------------------------------------------------------------------------
(* NeuralReranker.rerank as a function of its arguments                    *)

RerankReturned == cpc = "returned" /\ "failure" \in DOMAIN args

RerankAvailable == args.enabled /\ args.loaded

RerankFailed ==
    RerankAvailable /\ Len(args.candidates) >= 10 /\ args.failure.at # "none"

SortedByFinalScore(list) ==
    \A i, j \in 1..Len(list) :
        i < j => RLeq(FinalScoreKey(list[j]), FinalScoreKey(list[i]))

\* C14: on every path rerank returns at most top_k candidates and the
\* returned list is sorted by final_score descending.
C14_AtMostTopKSortedByFinalScore ==
    RerankReturned =>
        /\ Len(ret) <= TopK(args.top_k)
        /\ SortedByFinalScore(ret)

InputPrefix(list) ==
    /\ Len(list) = (IF Len(args.candidates) < TopK(args.top_k) THEN Len(args.candidates) ELSE TopK(args.top_k))
    /\ \A i \in 1..Len(list) : list[i].output_id = args.candidates[i].output_id

\* C15: with the reranker disabled or unavailable, rerank returns the first
\* top_k candidates in input order, each with final_score equal to its
\* composite_score and neural_score null.
C15_UnavailableSetsFinalScore ==
    (RerankReturned /\ ~RerankAvailable) =>
        /\ InputPrefix(ret)
        /\ \A i \in 1..Len(ret) :
              /\ ret[i].final_score = ret[i].composite_score
              /\ ret[i].neural_score = None

\* a comes before b in the stable descending composite_score order of the
\* input, whose output_ids are its positions
BeforeByComposite(a, b) ==
    \/ RLess(b.composite_score, a.composite_score)
    \/ /\ a.composite_score = b.composite_score
       /\ a.output_id < b.output_id

ReturnedIds == {ret[i].output_id : i \in 1..Len(ret)}

\* C16: when the cross-encoder fails at import, at inference or while
\* blending, rerank still returns: the candidates in descending
\* composite_score order (equal scores in input order), cut at top_k, each
\* with the composite_score it came with.
C16_FailureFallsBackToCompositeOrder ==
    (RerankReturned /\ RerankFailed) =>
        /\ Len(ret) = (IF Len(args.candidates) < TopK(args.top_k)
                       THEN Len(args.candidates) ELSE TopK(args.top_k))
        /\ \A i \in 1..Len(ret) :
              /\ ret[i].output_id \in 1..Len(args.candidates)
              /\ ret[i].composite_score =
                     args.candidates[ret[i].output_id].composite_score
        /\ \A i, j \in 1..Len(ret) : i < j => BeforeByComposite(ret[i], ret[j])
        /\ \A i \in 1..Len(ret) : \A c \in 1..Len(args.candidates) :
              c \notin ReturnedIds => BeforeByComposite(ret[i], args.candidates[c])

\* the blending loop fails after updating the first candidate, the input is
\* not in composite_score order, and the fallback moves and truncates it
C16_Witness ==
    /\ RerankReturned
    /\ RerankFailed
    /\ args.failure.at = "blend"
    /\ args.failure.blended >= 1
    /\ Len(ret) = 2
    /\ Len(ret) < Len(args.candidates)
    /\ ret[1].output_id = 2
    /\ ret[2].output_id = 3
    /\ args.candidates[1].final_score = None

-----------------------------------------------------------------------------
(* RankingService.rank_candidates as a function of its arguments           *)

Ranked == cpc \in {"ranked", "ranked again"} /\ "limit" \in DOMAIN args

RankLimit == IF args.limit = 0 THEN composite_pool_size ELSE args.limit

\* a comes before b: higher composite score, or the same score and earlier
\* in the input (output_ids are input positions)
BeforeByRank(a, b) ==
    \/ RLess(b.scores.composite_score, a.scores.composite_score)
    \/ /\ a.scores.composite_score = b.scores.composite_score
       /\ a.output_id < b.output_id

\* C17: rank_candidates returns inputs only, none twice, in descending
\* composite score order with equal scores in input order, and keeps the
\* first `limit` of that order.
C17_RankedByCompositeStable ==
    Ranked =>
        LET out == ret[1]
        IN  /\ Len(out) = (IF Len(args.candidates) < RankLimit
                           THEN Len(args.candidates) ELSE RankLimit)
            /\ \A i \in 1..Len(out) :
                  /\ out[i].output_id \in 1..Len(args.candidates)
                  /\ out[i].candidate = args.candidates[out[i].output_id]
            /\ \A i, j \in 1..Len(out) : i < j => BeforeByRank(out[i], out[j])

\* three candidates, the first two of equal composite score and the third
\* above both, limit 2: the third comes first, then the first; the second is
\* cut
C17_Witness ==
    /\ Ranked
    /\ Len(args.candidates) = 3
    /\ args.limit = 2
    /\ Len(ret[1]) = 2
    /\ ret[1][1].output_id = 3
    /\ ret[1][2].output_id = 1
    /\ args.candidates[1] = [args.candidates[2] EXCEPT !.output_id = 1]

RankedAgain == cpc = "ranked again" /\ "limit" \in DOMAIN args

OrderOf(out) == [i \in 1..Len(out) |-> out[i].output_id]

ExplorationOf(out) ==
    [o \in {out[i].output_id : i \in 1..Len(out)} |->
        (CHOOSE r \in {out[i] : i \in 1..Len(out)} : r.output_id = o)
            .scores.exploration_score]

\* C18: the ranking stage computes the exploration term in UCB mode,
\* min(1, mean + 2 * sqrt(variance)) of the Beta posterior, so two calls of
\* rank_candidates on the same candidates with unchanged statistics give the
\* same exploration scores and the same order.
C18_ExplorationIsDeterministicUCB ==
    RankedAgain =>
        /\ \A i \in 1..Len(ret[1]) :
              ret[1][i].scores.exploration_score =
                 compute_exploration_score(ret[1][i].candidate.click_count,
                                           ret[1][i].candidate.impression_count,
                                           TRUE, RZero)
        /\ ExplorationOf(ret[1]) = ExplorationOf(ret[2])
        /\ OrderOf(ret[1]) = OrderOf(ret[2])

-----------------------------------------------------------------------------
(* compute_simplified_debiased_ctr as a function of its arguments          *)

DebiasReturned == cpc = "returned" /\ "position_sum" \in DOMAIN args

\* p is an integer nearest to position_sum / impressions
NearestInteger(p, position_sum, impressions) ==
    Abs(2 * position_sum - 2 * p * impressions) <= impressions

Clamp01(x) == RMax(RZero, RMin(ROne, x))

DebiasedAt(p) ==
    Clamp01(RDiv(Frac(args.clicks, args.impressions),
                 RMax(get_propensity(args.propensities, p), Frac(1, 100))))

\* C19: compute_simplified_debiased_ctr returns 0.5 when impressions = 0 and
\* otherwise clamp01((clicks / impressions) / max(propensity(p), 0.01)) with
\* p an integer nearest to position_sum / impressions; the result lies in
\* [0, 1], and clicks = 10, impressions = 100, position_sum = 200 give
\* 0.10 / 0.7 under the settings table.
C19_DebiasedCtrFormula ==
    DebiasReturned =>
        /\ args.impressions = 0 => ret = RHalf
        /\ args.impressions > 0 =>
              \E p \in 0..(args.position_sum + 1) :
                 /\ NearestInteger(p, args.position_sum, args.impressions)
                 /\ ret = DebiasedAt(p)
        /\ RLeq(RZero, ret) /\ RLeq(ret, ROne)
        /\ (args.clicks = 10 /\ args.impressions = 100 /\ args.position_sum = 200)
              => ret = RDiv(Frac(10, 100), Frac(7, 10))

\* the example of the claim
C19_Witness ==
    /\ DebiasReturned
    /\ args.clicks = 10 /\ args.impressions = 100 /\ args.position_sum = 200
    /\ ret = Frac(1, 7)

-----------------------------------------------------------------------------
(* Calibration as a function of the dataset                                *)

Calibrated == cpc = "returned" /\ "click_data" \in DOMAIN args

\* ctr[pos] = clicks[pos] / impressions[pos] of the dataset, 0 without
\* impressions
CtrAt(position) ==
    IF ImpressionsAt(args.click_data, position) = 0 THEN RZero
    ELSE Frac(ClicksAt(args.click_data, position),
              ImpressionsAt(args.click_data, position))

\* C20: when the dataset has a click at position 1, the calibrated table has
\* propensity[1] = 1 and every entry equals ctr[pos] / ctr[1]; when ctr[1] = 0
\* the table in force before calibration is returned unchanged.
C20_CalibrationIdentity ==
    Calibrated =>
        IF ClicksAt(args.click_data, 1) > 0
        THEN /\ 1 \in DOMAIN ret.table
             /\ ret.table[1] = ROne
             /\ \A position \in DOMAIN ret.table :
                   ret.table[position] = RDiv(CtrAt(position), CtrAt(1))
        ELSE ret.table = position_propensities

\* C21: every propensity table calibration returns maps each position to a
\* value in the half-open interval (0, 1].
C21_PropensitiesInUnitInterval ==
    Calibrated =>
        \A position \in DOMAIN ret.table :
            /\ RLess(RZero, ret.table[position])
            /\ RLeq(ret.table[position], ROne)

-----------------------------------------------------------------------------
(* get_position_click_distribution as a function of the log and the date   *)

DistributionReturned == cpc = "returned" /\ "today" \in DOMAIN args

\* the rows of the log at `position` with an action of `actions`, created
\* within the last `days` days
RecentAt(position, actions) ==
    Cardinality({i \in 1..Len(args.rows) :
                    /\ args.rows[i].position_shown = position
                    /\ args.rows[i].action_type \in actions
                    /\ args.rows[i].created_at >= args.today - args.days})

\* C22: for every days >= 1 and every date the distribution query completes
\* and counts exactly the click/impression/skip interactions at positions
\* 1..20 created within the last `days` days.
C22_DistributionCompletes ==
    DistributionReturned =>
        /\ ret.raised = "nothing"
        /\ DOMAIN ret.distribution = 1..20
        /\ \A position \in 1..20 :
              /\ ret.distribution[position].clicks = RecentAt(position, {"click"})
              /\ ret.distribution[position].impressions =
                    RecentAt(position, {"click", "impression", "skip"})

-----------------------------------------------------------------------------
(* StatisticsService.update_ctr_estimates                                  *)

\* the step in which the UPDATE of update_ctr_estimates commits
RefreshCommits == rpc = "updating" /\ rpc' = "done"

BetaMean(row) ==
    Frac(thompson_prior_alpha + row.click_count,
         thompson_prior_alpha + thompson_prior_beta + row.impression_count)

BetaVariance(row) ==
    LET a == thompson_prior_alpha + row.click_count
        b == thompson_prior_beta + row.impression_count - row.click_count
    IN  Frac(a * b, (a + b) * (a + b) * (a + b + 1))

\* C23: update_ctr_estimates gives every row that had impression_count > 0
\* the Beta posterior mean and variance of its counters, leaves the other
\* rows as they were, changes no counter of any row, and returns the number
\* of rows it updated.
C23_RefreshSetsEstimatesOnly ==
    [][RefreshCommits =>
          /\ \A o \in Outputs :
                /\ CountersOf(stats'[o]) = CountersOf(stats[o])
                /\ o \in rtargets =>
                      /\ stats[o].impression_count > 0
                      /\ stats'[o].ctr_estimate = BetaMean(stats[o])
                      /\ stats'[o].ctr_variance = BetaVariance(stats[o])
                /\ o \notin rtargets => stats'[o] = stats[o]
          /\ rcount' = Cardinality({o \in Outputs : stats'[o] # stats[o]})]_vars

\* the refresh has updated the row of an output that was shown twice and
\* clicked once, and reported one row
C23_Witness ==
    /\ rpc = "done"
    /\ rcount = 1
    /\ stats["A"].impression_count = 2
    /\ stats["A"].click_count = 1
    /\ stats["A"].ctr_estimate = RHalf
    /\ stats["A"].ctr_variance = Frac(1, 20)

-----------------------------------------------------------------------------
(* EmbeddingCache.get_or_compute over time                                 *)

\* a get_or_compute call returns or raises in this step
CallStep == redis # <<>> /\ ret'.turn # ret.turn

\* the query without its surrounding whitespace
RECURSIVE Trimmed(_)
Trimmed(query) ==
    IF query = <<>> THEN <<>>
    ELSE IF Head(query) = " " THEN Trimmed(Tail(query))
    ELSE IF query[Len(query)] = " " THEN Trimmed(SubSeq(query, 1, Len(query) - 1))
    ELSE query

SameLetter(c, d) == c = d \/ {c, d} = {"a", "A"}

\* the two queries differ only in letter case or surrounding whitespace
SameUpToCaseAndSpace(q1, q2) ==
    /\ Len(Trimmed(q1)) = Len(Trimmed(q2))
    /\ \A i \in 1..Len(Trimmed(q1)) : SameLetter(Trimmed(q1)[i], Trimmed(q2)[i])

\* the entry was written by get_or_compute for `query` and has not expired
StoredFor(key, query) ==
    /\ redis[key].exists
    /\ redis[key].written_for \in Queries
    /\ SameUpToCaseAndSpace(redis[key].written_for, query)

\* C24: once get_or_compute has stored a vector for a query, a call within
\* the TTL for a query that differs only in letter case or surrounding
\* whitespace, whose cache read works, returns the stored vector and does
\* not call the compute function.
C24_CaseAndSpaceInsensitiveHit ==
    [][CallStep =>
          \A key \in CacheKeys :
              (/\ StoredFor(key, ret'.query)
               /\ ret'.problems \cap {"client unavailable", "read failed"} = {})
              => /\ ret'.outcome = "returned"
                 /\ ret'.value = redis[key].blob.vector
                 /\ ret'.computes = 0
                 /\ ret'.provider_calls = 0]_vars

\* the vector computed for " a" is returned for "A " without a compute
C24_Witness ==
    /\ redis # <<>>
    /\ ret.query = <<"A", " ">>
    /\ ret.outcome = "returned"
    /\ ret.computes = 0
    /\ ret.value = [of |-> <<" ", "a">>, dtype |-> "float32",
                    dimension |-> embedding_dimension]

\* what compute_func returns for the query when the provider answers
ComputedFor(query) == IF Trimmed(query) = <<>> THEN Zeros ELSE Embed(query)

WrongDimension(entry) ==
    /\ entry.exists
    /\ entry.blob.kind = "float32"
    /\ entry.blob.dimension # embedding_dimension

\* C25: a cache problem never fails a lookup. When the client is
\* unavailable, a read, write or decode fails, or the cached blob has the
\* wrong dimension, get_or_compute calls the compute function exactly once
\* and returns its result; nothing but the provider's error is ever raised;
\* and a blob of the wrong dimension is removed from the cache.
C25_CacheProblemsDegradeToCompute ==
    [][CallStep =>
          /\ ret'.outcome \in {"returned", "raised"}
          /\ ret'.outcome = "raised" => ret'.error = "provider"
          /\ ret'.problems # {} =>
                /\ ret'.computes = 1
                /\ ret'.outcome = "returned" => ret'.value = ComputedFor(ret'.query)
          /\ ("wrong dimension" \in ret'.problems /\ "delete failed" \notin ret'.problems)
                => \E key \in CacheKeys :
                      /\ WrongDimension(redis[key])
                      /\ ~WrongDimension(redis'[key])]_vars

\* a blob of another dimension was found for "a": it is gone, the vector was
\* computed and returned
C25_Witness ==
    /\ redis # <<>>
    /\ ret.query = <<"a">>
    /\ ret.problems = {"wrong dimension", "write failed"}
    /\ ret.outcome = "returned"
    /\ ret.computes = 1
    /\ ret.value = Embed(<<"a">>)
    /\ \A key \in CacheKeys : ~redis[key].exists

-----------------------------------------------------------------------------
(* EmbeddingService.embed_query as a function of the provider's behaviour  *)

EmbedReturned == cpc = "returned" /\ "provider" \in DOMAIN args

\* the provider answers one of its first three calls
AnswersInThree == \E i \in 1..3 : args.provider[i] = "ok"

FirstAnswer == CHOOSE i \in 1..3 :
                  /\ args.provider[i] = "ok"
                  /\ \A j \in 1..(i - 1) : args.provider[j] = "error"

\* at most three provider calls: the first answer is returned, three
\* failures in a row raise the provider's error
RetriedThreeTimes ==
    IF AnswersInThree
    THEN /\ ret.outcome = "returned"
         /\ ret.value = Embed(args.query)
         /\ ret.provider_calls = FirstAnswer
    ELSE /\ ret.outcome = "raised"
         /\ ret.error = "provider"
         /\ ret.provider_calls = 3

\* C26 (as stated): for every non-empty query embed_query calls the provider
\* at most 3 times, returns the result of the first successful call and
\* raises the provider's error only after 3 consecutive failures.
C26_NonEmptyQueryIsEmbedded ==
    (EmbedReturned /\ args.query # <<>>) => RetriedThreeTimes

\* C26 (amended): the same for every query that has a character other than
\* whitespace; an empty or whitespace-only query returns the zero vector
\* without any provider call.
C26_NonBlankQueryIsEmbedded ==
    EmbedReturned =>
        IF Trimmed(args.query) # <<>>
        THEN RetriedThreeTimes
        ELSE /\ ret.outcome = "returned"
             /\ ret.value = Zeros
             /\ ret.provider_calls = 0

\* the provider fails twice and answers the third call
C26_Witness ==
    /\ EmbedReturned
    /\ args.query = <<"A", " ">>
    /\ args.provider[1] = "error" /\ args.provider[2] = "error"
    /\ args.provider[3] = "ok"
    /\ ret.outcome = "returned"
    /\ ret.provider_calls = 3

-----------------------------------------------------------------------------
(* The search response                                                     *)

\* the limit the requests of the scenario ask for
AskedLimit == LET limit == CHOOSE l \in args.limits : TRUE
              IN  IF limit = 0 THEN final_result_size ELSE limit

WellFormedResponse(response) ==
    /\ Len(response.results) <= AskedLimit
    /\ \A i \in 1..Len(response.results) :
          /\ response.results[i].position = i
          /\ response.results[i].output_id \in DOMAIN catalog
    /\ \A i, j \in 1..Len(response.results) :
          i # j => response.results[i].output_id # response.results[j].output_id
    /\ response.total_candidates = Cardinality(DOMAIN catalog)
    /\ DOMAIN catalog = {} => response.results = <<>> /\ response.total_candidates = 0

\* C27: a search response never holds more than `limit` results, the i-th
\* result carries position i, every result is a retrieved candidate and none
\* repeats; with no candidates the response is results = [] and
\* total_candidates = 0.
C27_ResponseWithinLimit ==
    ("limits" \in DOMAIN args) =>
        /\ baseline.done => WellFormedResponse(baseline)
        /\ last.done => WellFormedResponse(last)

\* three candidates and limit 2: two results, positions 1 and 2
C27_Witness ==
    /\ "limits" \in DOMAIN args
    /\ args.limits = {2}
    /\ Cardinality(DOMAIN catalog) = 3
    /\ baseline.done
    /\ Len(baseline.results) = 2
    /\ baseline.results[2].position = 2
    /\ baseline.total_candidates = 3

-----------------------------------------------------------------------------
(* The committed statistics against the committed log                      *)

LoggedWith(o, actions) == {r \in LogOf(o) : r.action_type \in actions}

\* C28: log/counter consistency. In every committed state reached by the
\* interleavings of feedback requests on an output whose statistics started
\* at zero, impression_count is the number of logged rows of the output with
\* action click, impression or skip, click_count the number with action
\* click, like_count the number with action like, and position_sum the sum
\* of position_shown over all its logged rows.
C28_CountersMatchLog ==
    \A o \in Outputs :
        LET counters == CountersOf(stats[o])
        IN  /\ counters.impression_count =
                  Cardinality(LoggedWith(o, {"click", "impression", "skip"}))
            /\ counters.click_count = Cardinality(LoggedWith(o, {"click"}))
            /\ counters.like_count = Cardinality(LoggedWith(o, {"like"}))
            /\ counters.position_sum = SumPositions(LogOf(o))

\* a click and a like at position 1 committed on one output
C28_Witness ==
    \E o \in Outputs :
        /\ Cardinality(LoggedWith(o, {"click"})) = 1
        /\ Cardinality(LoggedWith(o, {"like"})) = 1
        /\ stats[o].exists
        /\ stats[o].impression_count = 1
        /\ stats[o].like_count = 1
        /\ stats[o].position_sum = 2

-----------------------------------------------------------------------------
(* Two batches over the same outputs in opposite orders                    *)

OppositeOrders ==
    /\ req[1].items = <<<<"A", 1>>, <<"B", 2>>>>
    /\ req[2].items = <<<<"B", 1>>, <<"A", 2>>>>

\* C29: two concurrent transactions that record feedback for the same two
\* outputs in opposite orders, each holding its row locks until commit, both
\* eventually commit: neither waits forever on the other's ItemStatistics
\* row and neither is aborted.
C29_BothEventuallyCommit ==
    OppositeOrders => <>(\A t \in Transactions : pc[t] = "committed")

-----------------------------------------------------------------------------
(* The shape of the list MMRDiversifier.diversify returns                  *)

\* C30: for any candidates, k >= 1 and quota map, MMRDiversifier.diversify
\* returns a list in which no candidate appears twice, every entry is one of
\* the input candidates, ranks are exactly 1..n in list order with
\* n <= min(k, number of candidates), and the first entry has redundancy 0;
\* the loop always terminates (every turn takes one candidate out of
\* `remaining`, so there are at most as many turns as candidates).
DiversifyShape ==
    /\ Len(dout) <= dk
    /\ Len(dout) <= Len(dpool)
    /\ \A r \in 1..Len(dout) :
          /\ dout[r].rank = r
          /\ dout[r].id \in 1..Len(dpool)
          /\ dout[r].relevance_score = dpool[dout[r].id].relevance_score
    /\ \A r, q \in 1..Len(dout) : r # q => dout[r].id # dout[q].id
    /\ dout # <<>> => dout[1].redundancy_score = RZero

\* a turn of the while loop that is followed by another test of its condition
LoopTurn == dpc = "looping" /\ dpc' = "looping"

C30_DiversifyShape ==
    /\ [](dpc = "returned" => DiversifyShape)
    /\ [][LoopTurn => /\ Len(ret'.remaining) < Len(ret.remaining)
                      /\ Len(ret'.selected) = Len(ret.selected) + 1]_vars

\* a call with quotas that returned fewer than k of the candidates, the
\* second of them redundant with the first
C30_Witness ==
    /\ dpc = "returned"
    /\ dslots # <<>>
    /\ Len(dout) = 2
    /\ Len(dout) < dk
    /\ Len(dout) < Len(dpool)
    /\ dout[2].rank = 2
    /\ RLess(RZero, dout[2].redundancy_score)

=============================================================================
